---- MODULE Spec2Model ----
(***************************************************************************)
(* A model of the sds011-rs driver: the wire codec of src/src/message.rs   *)
(* (byte level, indices as in the source) and the phase-typed driver of    *)
(* src/src/lib.rs.  A frame is a sequence of bytes; the source's data[i]   *)
(* is At(data, i).                                                         *)
(***************************************************************************)
EXTENDS Integers, Sequences, FiniteSets, TLC

VARIABLES
    state,      \* the phase marker S of SDS011<RW, S>; "Consumed" once a by-value call has failed
    config,     \* self.config
    sensor_id,  \* self.sensor_id : Option<u16>
    firmware,   \* self.firmware  : Option<FirmwareVersion>
    pc,         \* the running call's next statement, "idle" between calls
    call,       \* the public operation running, or the last one that returned
    args,       \* its arguments other than self and the delay provider
    locals,     \* local variables of the running call
    io,         \* delay / serial write / serial read events of the current (or last) call, in order
    ret         \* Option<Result>: the value returned by the last call, None while one runs

vars == <<state, config, sensor_id, firmware, pc, call, args, locals, io, ret>>

----------------------------------------------------------------------------
\* Rust values

None == <<>>
Some(x) == <<x>>
is_some(o) == Len(o) = 1
unwrap(o) == o[1]

Ok(v) == [ok |-> TRUE, val |-> v]
Err(e) == [ok |-> FALSE, err |-> e]
Unit == "()"

U8 == 0..255
At(data, i) == data[i + 1]
Put(data, i, b) == [data EXCEPT ![i + 1] = b]
wrapping_add(a, b) == (a + b) % 256

RECURSIVE fold_wrapping_add(_, _, _)
\* data[from..to].iter().fold(0, |acc: u8, i| acc.wrapping_add(*i))
fold_wrapping_add(data, from, to) ==
    IF from >= to THEN 0
    ELSE wrapping_add(fold_wrapping_add(data, from, to - 1), At(data, to - 1))

u16_from_be_bytes(hi, lo) == 256 * hi + lo
u16_from_le_bytes(b0, b1) == b0 + 256 * b1
u16_to_be_bytes(v) == <<v \div 256, v % 256>>

----------------------------------------------------------------------------
\* message.rs: errors and sizes

BooleanField(v) == [e |-> "BooleanField", a |-> v, b |-> 0]
TimeField(v) == [e |-> "TimeField", a |-> v, b |-> 0]
HeadTail == [e |-> "HeadTail", a |-> 0, b |-> 0]
CommandID(c) == [e |-> "CommandID", a |-> c, b |-> 0]
SubCommand(s) == [e |-> "SubCommand", a |-> s, b |-> 0]
Checksum(computed, expected) == [e |-> "Checksum", a |-> computed, b |-> expected]

RECV_BUF_SIZE == 10
SEND_BUF_SIZE == 19

----------------------------------------------------------------------------
\* message.rs: the payload types

\* Measurement_from_bytes as it would be with u16::from_be_bytes
Measurement_from_bytes_be(data) ==
    [pm25 |-> u16_from_be_bytes(At(data, 2), At(data, 3)),
     pm10 |-> u16_from_be_bytes(At(data, 4), At(data, 5))]

Measurement_from_bytes(data) ==
    [pm25 |-> u16_from_le_bytes(At(data, 2), At(data, 3)),
     pm10 |-> u16_from_le_bytes(At(data, 4), At(data, 5))]

NewDeviceID_from_bytes(data) == u16_from_be_bytes(At(data, 6), At(data, 7))

\* unimplemented!("This device ID is invalid")
NewDeviceID_populate_query_panics(self) ==
    u16_to_be_bytes(self)[1] = 255 \/ u16_to_be_bytes(self)[2] = 255

NewDeviceID_populate_query(self, data) ==
    Put(Put(data, 13, u16_to_be_bytes(self)[1]), 14, u16_to_be_bytes(self)[2])

\* enum discriminants (`as u8`)
QueryMode_as_u8(m) == IF m = "Query" THEN 0 ELSE 1
ReportingMode_as_u8(m) == IF m = "Active" THEN 0 ELSE 1
SleepMode_as_u8(m) == IF m = "Sleep" THEN 0 ELSE 1

QueryMode_try_from(value) ==
    CASE value = 0 -> Ok("Query")
      [] value = 1 -> Ok("Set")
      [] OTHER -> Err(BooleanField(value))

ReportingMode_try_from(value) ==
    CASE value = 0 -> Ok("Active")
      [] value = 1 -> Ok("Query")
      [] OTHER -> Err(BooleanField(value))

SleepMode_try_from(value) ==
    CASE value = 0 -> Ok("Sleep")
      [] value = 1 -> Ok("Work")
      [] OTHER -> Err(BooleanField(value))

Reporting_fields(mode, query) ==
    IF ~mode.ok THEN mode
    ELSE IF ~query.ok THEN query
    ELSE Ok([query |-> mode.val, reporting |-> query.val])

Reporting_from_bytes(data) ==
    Reporting_fields(QueryMode_try_from(At(data, 3)), ReportingMode_try_from(At(data, 4)))

Reporting_populate_query(self, data) ==
    Put(Put(data, 3, QueryMode_as_u8(self.query)), 4, ReportingMode_as_u8(self.reporting))

Reporting_new_query == [query |-> "Query", reporting |-> "Active"]
Reporting_new_set(reporting) == [query |-> "Set", reporting |-> reporting]
Reporting_mode(self) == self.reporting

Sleep_fields(mode, work) ==
    IF ~mode.ok THEN mode
    ELSE IF ~work.ok THEN work
    ELSE Ok([query |-> mode.val, sleep |-> work.val])

Sleep_from_bytes(data) ==
    Sleep_fields(QueryMode_try_from(At(data, 3)), SleepMode_try_from(At(data, 4)))

\* Sleep_populate_query as it would be with the two bytes exchanged
Sleep_populate_query_exchanged(self, data) ==
    Put(Put(data, 4, QueryMode_as_u8(self.query)), 3, SleepMode_as_u8(self.sleep))

Sleep_populate_query(self, data) ==
    Put(Put(data, 3, QueryMode_as_u8(self.query)), 4, SleepMode_as_u8(self.sleep))

Sleep_new_query == [query |-> "Query", sleep |-> "Sleep"]
Sleep_new_set(sleep) == [query |-> "Set", sleep |-> sleep]
Sleep_sleep_mode(self) == self.sleep

\* WorkingPeriod_fields as it would be with `time >= 30`
WorkingPeriod_fields_off_by_one(mode, time) ==
    IF ~mode.ok THEN mode
    ELSE IF time >= 30 THEN Err(TimeField(time))
    ELSE Ok([query |-> mode.val, minutes |-> time])

WorkingPeriod_fields(mode, time) ==
    IF ~mode.ok THEN mode
    ELSE IF time > 30 THEN Err(TimeField(time))
    ELSE Ok([query |-> mode.val, minutes |-> time])

WorkingPeriod_from_bytes(data) ==
    WorkingPeriod_fields(QueryMode_try_from(At(data, 3)), At(data, 4))

WorkingPeriod_populate_query(self, data) ==
    Put(Put(data, 3, QueryMode_as_u8(self.query)), 4, self.minutes)

WorkingPeriod_new_query == [query |-> "Query", minutes |-> 0]
WorkingPeriod_new_set(minutes) == [query |-> "Set", minutes |-> minutes]
WorkingPeriod_period(self) == self.minutes

\* FirmwareVersion_from_bytes as it would be reading from the subcommand byte on
FirmwareVersion_from_bytes_shifted(data) ==
    [year |-> At(data, 2), month |-> At(data, 3), day |-> At(data, 4)]

FirmwareVersion_from_bytes(data) ==
    [year |-> At(data, 3), month |-> At(data, 4), day |-> At(data, 5)]

----------------------------------------------------------------------------
\* message.rs: Kind.  A Kind is [tag, v], v the variant's payload.

Kind_ReportingMode(r) == [tag |-> "ReportingMode", v |-> r]
Kind_Query(m) == [tag |-> "Query", v |-> m]
Kind_SetDeviceID(d) == [tag |-> "SetDeviceID", v |-> d]
Kind_Sleep(s) == [tag |-> "Sleep", v |-> s]
Kind_WorkingPeriod(w) == [tag |-> "WorkingPeriod", v |-> w]
Kind_FWVersion(f) == [tag |-> "FWVersion", v |-> f]

\* Ok(Kind::X(r?)): the payload's error is returned as it is
Wrap(tag, r) == IF r.ok THEN Ok([tag |-> tag, v |-> r.val]) ELSE r

\* Kind_parse as it would be with the arms of subcommands 7 and 8 exchanged
Kind_parse_exchanged(data) ==
    CASE At(data, 1) = 192 -> Ok(Kind_Query(Some(Measurement_from_bytes(data))))
      [] At(data, 1) = 197 ->
            CASE At(data, 2) = 2 ->
                    Wrap("ReportingMode", Reporting_from_bytes(data))
              [] At(data, 2) = 5 -> Ok(Kind_SetDeviceID(NewDeviceID_from_bytes(data)))
              [] At(data, 2) = 6 ->
                    Wrap("Sleep", Sleep_from_bytes(data))
              [] At(data, 2) = 7 ->
                    Wrap("WorkingPeriod", WorkingPeriod_from_bytes(data))
              [] At(data, 2) = 8 -> Ok(Kind_FWVersion(Some(FirmwareVersion_from_bytes(data))))
              [] OTHER -> Err(SubCommand(At(data, 2)))
      [] OTHER -> Err(CommandID(At(data, 1)))

Kind_parse(data) ==
    CASE At(data, 1) = 192 -> Ok(Kind_Query(Some(Measurement_from_bytes(data))))
      [] At(data, 1) = 197 ->
            CASE At(data, 2) = 2 ->
                    Wrap("ReportingMode", Reporting_from_bytes(data))
              [] At(data, 2) = 5 -> Ok(Kind_SetDeviceID(NewDeviceID_from_bytes(data)))
              [] At(data, 2) = 6 ->
                    Wrap("Sleep", Sleep_from_bytes(data))
              [] At(data, 2) = 8 ->
                    Wrap("WorkingPeriod", WorkingPeriod_from_bytes(data))
              [] At(data, 2) = 7 -> Ok(Kind_FWVersion(Some(FirmwareVersion_from_bytes(data))))
              [] OTHER -> Err(SubCommand(At(data, 2)))
      [] OTHER -> Err(CommandID(At(data, 1)))

Kind_populate_query_panics(self) ==
    self.tag = "SetDeviceID" /\ NewDeviceID_populate_query_panics(self.v)

Kind_subcommand(self) ==
    CASE self.tag = "ReportingMode" -> 2
      [] self.tag = "Query" -> 4
      [] self.tag = "SetDeviceID" -> 5
      [] self.tag = "Sleep" -> 6
      [] self.tag = "WorkingPeriod" -> 8
      [] self.tag = "FWVersion" -> 7

Kind_populate_fields(self, data) ==
    CASE self.tag = "ReportingMode" -> Reporting_populate_query(self.v, data)
      [] self.tag = "Query" -> data
      [] self.tag = "SetDeviceID" -> NewDeviceID_populate_query(self.v, data)
      [] self.tag = "Sleep" -> Sleep_populate_query(self.v, data)
      [] self.tag = "WorkingPeriod" -> WorkingPeriod_populate_query(self.v, data)
      [] self.tag = "FWVersion" -> data

Kind_populate_query(self, data) ==
    Put(Put(Kind_populate_fields(self, data), 1, 180), 2, Kind_subcommand(self))

----------------------------------------------------------------------------
\* message.rs: Message

Message_new(kind, target_sensor) == [kind |-> kind, sensor_id |-> target_sensor]

\* parse_reply_kind as it would be with the sensor id read low byte first
parse_reply_kind_le_id(data, msg) ==
    IF ~msg.ok THEN msg
    ELSE IF (At(data, 0) # 170 \/ At(data, 9) # 171)
            /\ (IF msg.val.tag = "Sleep"
                THEN msg.val.v.query = "Set" /\ At(data, 9) # 255
                ELSE TRUE)
    THEN Err(HeadTail)
    ELSE Ok(Message_new(msg.val, Some(u16_from_le_bytes(At(data, 6), At(data, 7)))))

\* parse_reply_kind as it would be with head and tail checked before the kind
parse_reply_kind_frame_first(data, msg) ==
    IF (At(data, 0) # 170 \/ At(data, 9) # 171)
       /\ (IF msg.ok /\ msg.val.tag = "Sleep"
           THEN msg.val.v.query = "Set" /\ At(data, 9) # 255
           ELSE TRUE)
    THEN Err(HeadTail)
    ELSE IF ~msg.ok THEN msg
    ELSE Ok(Message_new(msg.val, Some(u16_from_be_bytes(At(data, 6), At(data, 7)))))

\* parse_reply after the checksum test: msg is Kind::parse(data)
parse_reply_kind(data, msg) ==
    IF ~msg.ok THEN msg
    ELSE IF (At(data, 0) # 170 \/ At(data, 9) # 171)
            /\ (IF msg.val.tag = "Sleep"
                THEN msg.val.v.query = "Set" /\ At(data, 9) # 255
                ELSE TRUE)
    THEN Err(HeadTail)
    ELSE Ok(Message_new(msg.val, Some(u16_from_be_bytes(At(data, 6), At(data, 7)))))

\* parse_reply from the checksum test on: chksum is the sum of data[2..8]
parse_reply_sum(data, chksum) ==
    IF chksum # At(data, 8) THEN Err(Checksum(chksum, At(data, 8)))
    ELSE parse_reply_kind(data, Kind_parse(data))

\* parse_reply as it would be if the sum started at the command byte
parse_reply_sums_command(data) == parse_reply_sum(data, fold_wrapping_add(data, 1, 8))

parse_reply(data) == parse_reply_sum(data, fold_wrapping_add(data, 2, 8))

\* the value standing for "the call did not return" (unimplemented!)
Unimplemented == <<"unimplemented">>

\* create_query after populate_query: the target id
create_query_target(self, output) ==
    IF self.sensor_id = None
    THEN Put(Put(output, 15, 255), 16, 255)
    ELSE Put(Put(output, 15, u16_to_be_bytes(unwrap(self.sensor_id))[1]),
             16, u16_to_be_bytes(unwrap(self.sensor_id))[2])

\* create_query's last step: the checksum
create_query_chksum(output) == Put(output, 17, fold_wrapping_add(output, 2, 17))

create_query(self) ==
    IF Kind_populate_query_panics(self.kind) THEN Unimplemented
    ELSE create_query_chksum(
            create_query_target(self,
                Kind_populate_query(self.kind,
                    Put(Put([i \in 1..SEND_BUF_SIZE |-> 0], 0, 170), 18, 171))))

----------------------------------------------------------------------------
\* lib.rs: configuration, errors, the transport and the delay provider

READ_BUF_SIZE == 10
DEFAULT_SLEEP_DELAY == 500
DEFAULT_MEASURE_DELAY == 30000

Config_default == [sleep_delay |-> DEFAULT_SLEEP_DELAY, measure_delay |-> DEFAULT_MEASURE_DELAY]
Config_set_measure_delay(self, measure_delay) == [self EXCEPT !.measure_delay = measure_delay]
Config_set_sleep_delay(self, sleep_delay) == [self EXCEPT !.sleep_delay = sleep_delay]

ParseError(e) == [e |-> "ParseError", inner |-> e]
ReadError(e) == [e |-> "ReadError", inner |-> e]
WriteError(e) == [e |-> "WriteError", inner |-> e]
ShortRead == [e |-> "ShortRead", inner |-> None]
ShortWrite == [e |-> "ShortWrite", inner |-> None]
UnexpectedType == [e |-> "UnexpectedType", inner |-> None]
OperationFailed == [e |-> "OperationFailed", inner |-> None]
Invalid == [e |-> "Invalid", inner |-> None]

\* events of the delay provider and of the serial interface
DelayEv(ms) == [op |-> "delay", ms |-> ms]
WriteEv(buf, w) == [op |-> "write", buf |-> buf, did |-> w]
ReadEv(len, r) == [op |-> "read", len |-> len, got |-> r]

\* what one helper did: its result and the events it caused, in order
Done(res, evs) == [res |-> res, io |-> evs]

\* `self` as the helpers see it
Self == [sensor_id |-> sensor_id, firmware |-> firmware, config |-> config]

\* get_reply: one read into a READ_BUF_SIZE buffer.  r is what serial.read did:
\* ReadOk(n, buf) (n bytes read, buf the buffer afterwards) or ReadFailed(e)
get_reply_parsed(m) == IF m.ok THEN Ok(m.val) ELSE Err(ParseError(m.err))

\* get_reply as it would be if a short read were decoded like a full one
get_reply_decodes_short(r) ==
    Done(IF r.ok
         THEN get_reply_parsed(parse_reply(r.buf))
         ELSE Err(ReadError(r.e)),
         <<ReadEv(READ_BUF_SIZE, r)>>)

get_reply(r) ==
    Done(IF r.ok
         THEN IF r.n = READ_BUF_SIZE THEN get_reply_parsed(parse_reply(r.buf))
              ELSE Err(ShortRead)
         ELSE Err(ReadError(r.e)),
         <<ReadEv(READ_BUF_SIZE, r)>>)

\* send_message_write as it would be if a short write were tried once more
send_message_write_retries(out_buf, w) ==
    IF w.ok /\ w.n # Len(out_buf)
    THEN Done(Ok(Unit), <<WriteEv(out_buf, w), WriteEv(out_buf, [w EXCEPT !.n = Len(out_buf)])>>)
    ELSE Done(IF w.ok THEN Ok(Unit) ELSE Err(WriteError(w.e)), <<WriteEv(out_buf, w)>>)

\* send_message: one write of the encoded query.  w is what serial.write did:
\* WriteOk(n) or WriteFailed(e)
send_message_write(out_buf, w) ==
    Done(IF w.ok
         THEN IF w.n = Len(out_buf) THEN Ok(Unit) ELSE Err(ShortWrite)
         ELSE Err(WriteError(w.e)),
         <<WriteEv(out_buf, w)>>)

\* send_message as it would be if every query were sent to all sensors
send_message_to_all(self, kind, w) ==
    send_message_write(create_query(Message_new(kind, None)), w)

send_message(self, kind, w) ==
    send_message_write(create_query(Message_new(kind, self.sensor_id)), w)

\* Then as it would be without the `?`: b runs whatever a returned
Then_goes_on(a, b) == Done(b.res, a.io \o b.io)

\* `a?; b`: b runs only when a returned Ok
Then(a, b) == IF a.res.ok THEN Done(b.res, a.io \o b.io) ELSE a

\* Confirm as it would be if a reply of the right kind were enough
Confirm_kind_only(g, tag, fld, want) ==
    Done(IF ~g.res.ok THEN g.res
         ELSE IF g.res.val.kind.tag = tag THEN Ok(Unit) ELSE Err(UnexpectedType),
         g.io)

\* Confirm as it would be if the reply also had to carry the `set` flag
Confirm_requires_set(g, tag, fld, want) ==
    Done(IF ~g.res.ok THEN g.res
         ELSE IF g.res.val.kind.tag = tag
              THEN IF g.res.val.kind.v[fld] = want /\ g.res.val.kind.v.query = "Set"
                   THEN Ok(Unit) ELSE Err(OperationFailed)
              ELSE Err(UnexpectedType),
         g.io)

\* `match self.get_reply().await?.kind { .. }` of a confirming helper: g is what
\* get_reply did, the reply must be of kind tag and its field fld must be want
Confirm(g, tag, fld, want) ==
    Done(IF ~g.res.ok THEN g.res
         ELSE IF g.res.val.kind.tag = tag
              THEN IF g.res.val.kind.v[fld] = want THEN Ok(Unit) ELSE Err(OperationFailed)
              ELSE Err(UnexpectedType),
         g.io)

read_sensor_match(g) ==
    Done(IF ~g.res.ok THEN g.res
         ELSE IF g.res.val.kind.tag = "Query"
              THEN Ok(unwrap(g.res.val.kind.v))
              ELSE Err(UnexpectedType),
         g.io)

\* read_sensor as it would be if a reading of another sensor were refused
read_sensor_of_own_id(self, query, w, r) ==
    Then(IF query THEN send_message(self, Kind_Query(None), w) ELSE Done(Ok(Unit), <<>>),
         IF get_reply(r).res.ok /\ get_reply(r).res.val.sensor_id # self.sensor_id
         THEN Done(Err(UnexpectedType), get_reply(r).io)
         ELSE read_sensor_match(get_reply(r)))

read_sensor(self, query, w, r) ==
    Then(IF query THEN send_message(self, Kind_Query(None), w) ELSE Done(Ok(Unit), <<>>),
         read_sensor_match(get_reply(r)))

get_firmware_match(g) ==
    Done(IF ~g.res.ok THEN g.res
         ELSE IF g.res.val.kind.tag = "FWVersion"
              THEN Ok(<<unwrap(g.res.val.sensor_id), unwrap(g.res.val.kind.v)>>)
              ELSE Err(UnexpectedType),
         g.io)

get_firmware(self, w, r) ==
    Then(send_message(self, Kind_FWVersion(None), w), get_firmware_match(get_reply(r)))

set_runmode_query(self, w, r) ==
    Then(send_message(self, Kind_ReportingMode(Reporting_new_set("Query")), w),
         Confirm(get_reply(r), "ReportingMode", "reporting", "Query"))

set_runmode_active(self, w, r) ==
    Then(send_message(self, Kind_ReportingMode(Reporting_new_set("Active")), w),
         Confirm(get_reply(r), "ReportingMode", "reporting", "Active"))

\* set_period as it would be if any valid period were taken as the confirmation
set_period_any(self, minutes, w, r) ==
    Then(send_message(self, Kind_WorkingPeriod(WorkingPeriod_new_set(minutes)), w),
         Confirm(get_reply(r), "WorkingPeriod", "query", "Set"))

set_period(self, minutes, w, r) ==
    Then(send_message(self, Kind_WorkingPeriod(WorkingPeriod_new_set(minutes)), w),
         Confirm(get_reply(r), "WorkingPeriod", "minutes", minutes))

\* sleep as it would be with wake's confirmation copied into it
sleep_confirms_work(self, w, r) ==
    Then(send_message(self, Kind_Sleep(Sleep_new_set("Sleep")), w),
         Confirm(get_reply(r), "Sleep", "sleep", "Work"))

sleep(self, w, r) ==
    Then(send_message(self, Kind_Sleep(Sleep_new_set("Sleep")), w),
         Confirm(get_reply(r), "Sleep", "sleep", "Sleep"))

\* wake as it would be if a measurement frame ahead of the reply were skipped
wake_skips_measurement(self, w, r) ==
    IF w.ok /\ w.n = SEND_BUF_SIZE /\ r.ok /\ r.n = READ_BUF_SIZE /\ At(r.buf, 1) = 192
    THEN Done(Ok(Unit),
              send_message(self, Kind_Sleep(Sleep_new_set("Work")), w).io
                  \o <<ReadEv(READ_BUF_SIZE, r),
                       ReadEv(READ_BUF_SIZE,
                              [r EXCEPT !.buf = <<170, 197, 6, 1, 1, 0, 161, 96, 9, 171>>])>>)
    ELSE Then(send_message(self, Kind_Sleep(Sleep_new_set("Work")), w),
              Confirm(get_reply(r), "Sleep", "sleep", "Work"))

wake(self, w, r) ==
    Then(send_message(self, Kind_Sleep(Sleep_new_set("Work")), w),
         Confirm(get_reply(r), "Sleep", "sleep", "Work"))

----------------------------------------------------------------------------
\* The environment: what the serial interface can answer.

NumReadings == 2    \* distinct measurement readings the device reports
NumVersions == 2    \* distinct firmware dates the device reports

\* a 10-byte frame with a consistent checksum
WithChecksum(body) == Put(body, 8, fold_wrapping_add(body, 2, 8))
Frame(head, cmd, b2, b3, b4, b5, dev, tail) ==
    WithChecksum(<<head, cmd, b2, b3, b4, b5, dev \div 256, dev % 256, 0, tail>>)
Reply(cmd, b2, b3, b4, b5, dev) == Frame(170, cmd, b2, b3, b4, b5, dev, 171)
BadChecksum(f) == Put(f, 8, wrapping_add(At(f, 8), 1))

IdA == 41312        \* 0xA160, the id of the protocol document's examples
IdB == 256 + 2      \* 0x0102, another device
IdAll == 65535      \* 0xFFFF

SleepReplies ==
    {Frame(170, 197, 6, b3, b4, 0, IdA, tail) : b3 \in {0, 1}, b4 \in {0, 1}, tail \in {171, 255}}
        \cup {Reply(197, 6, 1, 2, 0, IdA)}
ReportingReplies == {Reply(197, 2, b3, b4, 0, IdA) : b3 \in {0, 1}, b4 \in {0, 1}}
FirmwareReplies ==
    {Reply(197, 7, 15 + i, 7, 10, IdA) : i \in 0..(NumVersions - 1)}
        \cup {Reply(197, 7, 15, 7, 10, IdB), Reply(197, 7, 15, 7, 10, IdAll)}
PeriodReplies ==
    {Reply(197, 8, 1, m, 0, IdA) : m \in {0, 1, 30, 31}} \cup {Reply(197, 8, 0, 1, 0, IdA)}
MeasurementReplies ==
    {Reply(192, 212 + i, 4, 58, 10, IdA) : i \in 0..(NumReadings - 1)}
        \cup {Reply(192, 212, 4, 58, 10, IdB)}
OtherReplies ==
    {Reply(197, 5, 0, 0, 0, IdA - 351),             \* SetDeviceID confirmation, id 0xA001
     Reply(193, 2, 1, 1, 0, IdA),                   \* unknown command
     Reply(197, 9, 1, 1, 0, IdA),                   \* unknown subcommand
     BadChecksum(Reply(192, 212, 4, 58, 10, IdA)),
     Frame(170, 197, 2, 1, 1, 0, IdA, 0),           \* wrong tail
     Frame(0, 192, 212, 4, 58, 10, IdA, 171)}       \* wrong head

Replies ==
    SleepReplies \cup ReportingReplies \cup FirmwareReplies \cup PeriodReplies
        \cup MeasurementReplies \cup OtherReplies

ReadOk(n, buf) == [ok |-> TRUE, n |-> n, buf |-> buf, e |-> ""]
ReadFailed(e) == [ok |-> FALSE, n |-> 0, buf |-> <<>>, e |-> e]
WriteOk(n) == [ok |-> TRUE, n |-> n, e |-> ""]
WriteFailed(e) == [ok |-> FALSE, n |-> 0, e |-> e]

\* the first n bytes of f in a zeroed buffer
Partial(f, n) == [i \in 1..READ_BUF_SIZE |-> IF i <= n THEN f[i] ELSE 0]

ReadOutcomes ==
    {ReadOk(READ_BUF_SIZE, f) : f \in Replies}
        \cup {ReadOk(n, Partial(Reply(192, 212, 4, 58, 10, IdA), n)) : n \in {0, 9}}
        \cup {ReadFailed("io")}
WriteOutcomes == {WriteOk(SEND_BUF_SIZE), WriteOk(0), WriteOk(18), WriteFailed("io")}

\* the write handed over the whole frame
Sent(w) == w.ok /\ w.n = SEND_BUF_SIZE
\* a read happens only after a complete write, so only then does its outcome matter
ReadsAfter(w) == IF w.ok /\ w.n = SEND_BUF_SIZE THEN ReadOutcomes ELSE {ReadFailed("io")}

MaxMinutesArg == 32     \* make_periodic is called with minutes in 0..MaxMinutesArg, or u8::MAX
MinutesArgs == (0..MaxMinutesArg) \cup {255}

Configs ==
    {Config_default, Config_set_measure_delay(Config_set_sleep_delay(Config_default, 20), 1000)}

----------------------------------------------------------------------------
\* lib.rs: the public operations, one action per statement; an exchange is two
\* actions, its write and, when the whole frame was written, its read

NoLocals == [minutes |-> None, fw |-> None, res |-> None]

\* `return r` (or the `?` of a failed step) of a call taking `&mut self`
Return(r) ==
    /\ pc' = "idle"
    /\ ret' = Some(r)
    /\ locals' = NoLocals

\* serial.write has taken the whole frame of the exchange x: the call waits in
\* serial.read for the reply
AwaitReply(x, at) ==
    /\ io' = Append(io, Head(x.io))
    /\ pc' = at
    /\ UNCHANGED <<state, config, sensor_id, firmware, call, args, locals, ret>>

\* the exchange x from its read on
FromRead(x) == [x EXCEPT !.io = Tail(@)]

\* the read of an exchange whose write fell short or failed never happens
NoRead == ReadFailed("io")

\* SDS011::new
new(cfg) ==
    /\ state' = "Uninitialized"
    /\ config' = cfg
    /\ sensor_id' = None
    /\ firmware' = None
    /\ pc' = "idle"
    /\ call' = "new"
    /\ args' = <<>>
    /\ locals' = NoLocals
    /\ io' = <<>>
    /\ ret' = None

Init ==
    /\ state = "Uninitialized"
    /\ config \in Configs
    /\ sensor_id = None
    /\ firmware = None
    /\ pc = "idle"
    /\ call = "new"
    /\ args = <<>>
    /\ locals = NoLocals
    /\ io = <<>>
    /\ ret = None

\* a caller whose driver was consumed by a failed call builds a new one
New ==
    /\ pc = "idle"
    /\ state = "Consumed"
    /\ \E cfg \in Configs : new(cfg)

\* init: delay.delay_ms(self.config.sleep_delay)
init_delay ==
    /\ pc = "idle"
    /\ state = "Uninitialized"
    /\ call' = "init"
    /\ args' = <<>>
    /\ io' = <<DelayEv(config.sleep_delay)>>
    /\ ret' = None
    /\ pc' = "init_wake"
    /\ UNCHANGED <<state, config, sensor_id, firmware, locals>>

\* InitStep as it would be if init went on after a failed step
InitStep_goes_on(x, next) ==
    /\ io' = io \o x.io
    /\ pc' = next
    /\ UNCHANGED <<state, ret>>
    /\ UNCHANGED <<config, sensor_id, firmware, call, args>>

\* a step `x?` of init: on Err the error is returned and self is dropped
InitStep(x, next) ==
    /\ io' = io \o x.io
    /\ IF x.res.ok
       THEN /\ pc' = next
            /\ UNCHANGED <<state, ret>>
       ELSE /\ pc' = "idle"
            /\ ret' = Some(x.res)
            /\ state' = "Consumed"
    /\ UNCHANGED <<config, sensor_id, firmware, call, args>>

\* `let (id, firmware) = x?`
InitStepLet(x, next) ==
    /\ InitStep(x, next)
    /\ locals' = IF x.res.ok THEN [locals EXCEPT !.fw = Some(x.res.val)] ELSE NoLocals

\* `x?; Ok(SDS011::<RW, Polling> { sensor_id: Some(id), firmware: Some(firmware), .. })`
InitReturn(x) ==
    /\ io' = io \o x.io
    /\ pc' = "idle"
    /\ locals' = NoLocals
    /\ IF x.res.ok
       THEN /\ state' = "Polling"
            /\ sensor_id' = Some(unwrap(locals.fw)[1])
            /\ firmware' = Some(unwrap(locals.fw)[2])
            /\ ret' = Some(Ok("Polling"))
       ELSE /\ state' = "Consumed"
            /\ ret' = Some(x.res)
            /\ UNCHANGED <<sensor_id, firmware>>
    /\ UNCHANGED <<config, call, args>>

\* init: self.wake().await?, up to the end of its write
init_wake ==
    /\ pc = "init_wake"
    /\ \E w \in WriteOutcomes :
          IF Sent(w)
          THEN AwaitReply(wake(Self, w, NoRead), "init_wake_reply")
          ELSE InitStep(wake(Self, w, NoRead), "init_set_runmode_query") /\ UNCHANGED locals

\* init_wake_reply as it would be if init went on to get_firmware, leaving the mode alone
init_wake_reply_skips_mode ==
    /\ pc = "init_wake_reply"
    /\ \E r \in ReadOutcomes :
          InitStep(FromRead(wake(Self, WriteOk(SEND_BUF_SIZE), r)), "init_get_firmware")
    /\ UNCHANGED locals

\* ... and its reply
init_wake_reply ==
    /\ pc = "init_wake_reply"
    /\ \E r \in ReadOutcomes :
          InitStep(FromRead(wake(Self, WriteOk(SEND_BUF_SIZE), r)), "init_set_runmode_query")
    /\ UNCHANGED locals

\* self.set_runmode_query().await?
init_set_runmode_query ==
    /\ pc = "init_set_runmode_query"
    /\ \E w \in WriteOutcomes :
          IF Sent(w)
          THEN AwaitReply(set_runmode_query(Self, w, NoRead), "init_set_runmode_query_reply")
          ELSE InitStep(set_runmode_query(Self, w, NoRead), "init_get_firmware") /\ UNCHANGED locals

\* ... and its reply
init_set_runmode_query_reply ==
    /\ pc = "init_set_runmode_query_reply"
    /\ \E r \in ReadOutcomes :
          InitStep(FromRead(set_runmode_query(Self, WriteOk(SEND_BUF_SIZE), r)),
                  "init_get_firmware")
    /\ UNCHANGED locals

\* let (id, firmware) = self.get_firmware().await?
init_get_firmware ==
    /\ pc = "init_get_firmware"
    /\ \E w \in WriteOutcomes :
          IF Sent(w)
          THEN AwaitReply(get_firmware(Self, w, NoRead), "init_get_firmware_reply")
          ELSE InitStepLet(get_firmware(Self, w, NoRead), "init_sleep")

\* ... and its reply
init_get_firmware_reply ==
    /\ pc = "init_get_firmware_reply"
    /\ \E r \in ReadOutcomes :
          InitStepLet(FromRead(get_firmware(Self, WriteOk(SEND_BUF_SIZE), r)), "init_sleep")

\* self.sleep().await?; Ok(SDS011::<RW, Polling> { .. })
init_sleep ==
    /\ pc = "init_sleep"
    /\ \E w \in WriteOutcomes :
          IF Sent(w)
          THEN AwaitReply(sleep(Self, w, NoRead), "init_sleep_reply")
          ELSE InitReturn(sleep(Self, w, NoRead))

\* ... and its reply
init_sleep_reply ==
    /\ pc = "init_sleep_reply"
    /\ \E r \in ReadOutcomes : InitReturn(FromRead(sleep(Self, WriteOk(SEND_BUF_SIZE), r)))

\* the future of init is dropped before it completes: the driver it took goes with it
init_dropped ==
    /\ call = "init"
    /\ pc # "idle"
    /\ pc' = "idle"
    /\ state' = "Consumed"
    /\ ret' = None
    /\ locals' = NoLocals
    /\ UNCHANGED <<config, sensor_id, firmware, call, args, io>>

\* Polling_measure_delay as it would be if a measure that failed were taken up
\* again at its second query
Polling_measure_delay_resumes ==
    /\ pc = "idle"
    /\ state = "Polling"
    /\ call' = "Polling::measure"
    /\ args' = <<>>
    /\ io' = <<DelayEv(config.sleep_delay)>>
    /\ ret' = None
    /\ pc' = IF call = "Polling::measure" /\ ret # None /\ ~unwrap(ret).ok
             THEN "measure_real" ELSE "measure_wake"
    /\ UNCHANGED <<state, config, sensor_id, firmware, locals>>

\* SDS011<RW, Polling>::measure: delay.delay_ms(self.config.sleep_delay)
Polling_measure_delay ==
    /\ pc = "idle"
    /\ state = "Polling"
    /\ call' = "Polling::measure"
    /\ args' = <<>>
    /\ io' = <<DelayEv(config.sleep_delay)>>
    /\ ret' = None
    /\ pc' = "measure_wake"
    /\ UNCHANGED <<state, config, sensor_id, firmware, locals>>

\* Step as it would be if a failed step also invalidated the driver
Step_invalidates(x, next) ==
    /\ io' = io \o x.io
    /\ IF x.res.ok
       THEN /\ pc' = next
            /\ UNCHANGED <<state, ret>>
       ELSE /\ pc' = "idle"
            /\ ret' = Some(x.res)
            /\ state' = "Uninitialized"
    /\ UNCHANGED <<config, sensor_id, firmware, call, args>>

\* a step `x?` of a call taking `&mut self`: on Err the error is returned
Step(x, next) ==
    /\ io' = io \o x.io
    /\ IF x.res.ok
       THEN /\ pc' = next
            /\ UNCHANGED ret
       ELSE /\ pc' = "idle"
            /\ ret' = Some(x.res)
    /\ UNCHANGED <<state, config, sensor_id, firmware, call, args>>

\* StepLet as it would be if a failed reading still put the sensor to sleep
StepLet_sleeps_on_error(x, next) ==
    /\ IF x.res.ok
       THEN /\ io' = io \o x.io
            /\ pc' = next
            /\ locals' = [locals EXCEPT !.res = Some(x.res.val)]
            /\ UNCHANGED ret
       ELSE /\ io' = io \o x.io \o sleep(Self, WriteOk(SEND_BUF_SIZE), ReadFailed("io")).io
            /\ Return(x.res)
    /\ UNCHANGED <<state, config, sensor_id, firmware, call, args>>

\* `let res = x?`
StepLet(x, next) ==
    /\ Step(x, next)
    /\ locals' = IF x.res.ok THEN [locals EXCEPT !.res = Some(x.res.val)] ELSE NoLocals

\* `x?; Ok(res)`
MeasureReturn(x) ==
    /\ io' = io \o x.io
    /\ Return(IF x.res.ok THEN Ok(unwrap(locals.res)) ELSE x.res)
    /\ UNCHANGED <<state, config, sensor_id, firmware, call, args>>

\* PeriodicReturn as it would be if the Periodic driver were built like a new one
PeriodicReturn_forgets(x) ==
    /\ io' = io \o x.io
    /\ pc' = "idle"
    /\ locals' = NoLocals
    /\ IF x.res.ok
       THEN /\ state' = "Periodic"
            /\ ret' = Some(Ok("Periodic"))
            /\ sensor_id' = None
            /\ firmware' = None
       ELSE /\ state' = "Consumed"
            /\ ret' = Some(x.res)
            /\ UNCHANGED <<sensor_id, firmware>>
    /\ UNCHANGED <<config, call, args>>

\* `x?; Ok(SDS011::<RW, Periodic> { .. })`
PeriodicReturn(x) ==
    /\ io' = io \o x.io
    /\ pc' = "idle"
    /\ locals' = NoLocals
    /\ IF x.res.ok
       THEN /\ state' = "Periodic"
            /\ ret' = Some(Ok("Periodic"))
       ELSE /\ state' = "Consumed"
            /\ ret' = Some(x.res)
    /\ UNCHANGED <<config, sensor_id, firmware, call, args>>

\* `x` as the whole body of a call on `&mut self`
TailCall(x) ==
    /\ io' = x.io
    /\ Return(x.res)

\* self.wake().await?
Polling_measure_wake ==
    /\ pc = "measure_wake"
    /\ \E w \in WriteOutcomes :
          IF Sent(w)
          THEN AwaitReply(wake(Self, w, NoRead), "measure_wake_reply")
          ELSE Step(wake(Self, w, NoRead), "measure_dummy") /\ UNCHANGED locals

\* ... and its reply
Polling_measure_wake_reply ==
    /\ pc = "measure_wake_reply"
    /\ \E r \in ReadOutcomes :
          Step(FromRead(wake(Self, WriteOk(SEND_BUF_SIZE), r)), "measure_dummy")
    /\ UNCHANGED locals

\* _ = self.read_sensor(true).await?
Polling_measure_dummy ==
    /\ pc = "measure_dummy"
    /\ \E w \in WriteOutcomes :
          IF Sent(w)
          THEN AwaitReply(read_sensor(Self, TRUE, w, NoRead), "measure_dummy_reply")
          ELSE Step(read_sensor(Self, TRUE, w, NoRead), "measure_spin") /\ UNCHANGED locals

\* Polling_measure_dummy_reply as it would be if the first reading were kept and returned
Polling_measure_dummy_reply_kept ==
    /\ pc = "measure_dummy_reply"
    /\ \E r \in ReadOutcomes :
          StepLet(FromRead(read_sensor(Self, TRUE, WriteOk(SEND_BUF_SIZE), r)), "measure_sleep")

\* ... and its reply
Polling_measure_dummy_reply ==
    /\ pc = "measure_dummy_reply"
    /\ \E r \in ReadOutcomes :
          Step(FromRead(read_sensor(Self, TRUE, WriteOk(SEND_BUF_SIZE), r)), "measure_spin")
    /\ UNCHANGED locals

\* delay.delay_ms(self.config.measure_delay)
Polling_measure_spin ==
    /\ pc = "measure_spin"
    /\ io' = Append(io, DelayEv(config.measure_delay))
    /\ pc' = "measure_real"
    /\ UNCHANGED <<state, config, sensor_id, firmware, call, args, locals, ret>>

\* let res = self.read_sensor(true).await?
Polling_measure_real ==
    /\ pc = "measure_real"
    /\ \E w \in WriteOutcomes :
          IF Sent(w)
          THEN AwaitReply(read_sensor(Self, TRUE, w, NoRead), "measure_real_reply")
          ELSE StepLet(read_sensor(Self, TRUE, w, NoRead), "measure_sleep")

\* ... and its reply
Polling_measure_real_reply ==
    /\ pc = "measure_real_reply"
    /\ \E r \in ReadOutcomes :
          StepLet(FromRead(read_sensor(Self, TRUE, WriteOk(SEND_BUF_SIZE), r)), "measure_sleep")

\* self.sleep().await?; Ok(res)
Polling_measure_sleep ==
    /\ pc = "measure_sleep"
    /\ \E w \in WriteOutcomes :
          IF Sent(w)
          THEN AwaitReply(sleep(Self, w, NoRead), "measure_sleep_reply")
          ELSE MeasureReturn(sleep(Self, w, NoRead))

\* ... and its reply
Polling_measure_sleep_reply ==
    /\ pc = "measure_sleep_reply"
    /\ \E r \in ReadOutcomes : MeasureReturn(FromRead(sleep(Self, WriteOk(SEND_BUF_SIZE), r)))

\* the future of measure is dropped before it completes: it borrowed the driver,
\* which stays as it is
Polling_measure_dropped ==
    /\ call = "Polling::measure"
    /\ pc # "idle"
    /\ pc' = "idle"
    /\ ret' = None
    /\ locals' = NoLocals
    /\ UNCHANGED <<state, config, sensor_id, firmware, call, args, io>>

\* make_periodic_check as it would be with `minutes >= 30`
make_periodic_check_off_by_one ==
    /\ pc = "idle"
    /\ state = "Polling"
    /\ call' = "make_periodic"
    /\ \E minutes \in MinutesArgs :
          /\ args' = <<minutes>>
          /\ IF minutes >= 30
             THEN /\ io' = <<>>
                  /\ pc' = "idle"
                  /\ ret' = Some(Err(Invalid))
                  /\ state' = "Consumed"
                  /\ locals' = NoLocals
             ELSE /\ io' = <<DelayEv(config.sleep_delay)>>
                  /\ pc' = "make_periodic_wake"
                  /\ ret' = None
                  /\ locals' = [NoLocals EXCEPT !.minutes = Some(minutes)]
                  /\ UNCHANGED state
    /\ UNCHANGED <<config, sensor_id, firmware>>

\* make_periodic_check as it would be without the test of minutes
make_periodic_check_missing ==
    /\ pc = "idle"
    /\ state = "Polling"
    /\ call' = "make_periodic"
    /\ \E minutes \in MinutesArgs :
          /\ args' = <<minutes>>
          /\ io' = <<DelayEv(config.sleep_delay)>>
          /\ pc' = "make_periodic_wake"
          /\ ret' = None
          /\ locals' = [NoLocals EXCEPT !.minutes = Some(minutes)]
          /\ UNCHANGED state
    /\ UNCHANGED <<config, sensor_id, firmware>>

\* make_periodic: if minutes > 30 { return Err(Invalid) }; delay.delay_ms(sleep_delay)
make_periodic_check ==
    /\ pc = "idle"
    /\ state = "Polling"
    /\ call' = "make_periodic"
    /\ \E minutes \in MinutesArgs :
          /\ args' = <<minutes>>
          /\ IF minutes > 30
             THEN /\ io' = <<>>
                  /\ pc' = "idle"
                  /\ ret' = Some(Err(Invalid))
                  /\ state' = "Consumed"
                  /\ locals' = NoLocals
             ELSE /\ io' = <<DelayEv(config.sleep_delay)>>
                  /\ pc' = "make_periodic_wake"
                  /\ ret' = None
                  /\ locals' = [NoLocals EXCEPT !.minutes = Some(minutes)]
                  /\ UNCHANGED state
    /\ UNCHANGED <<config, sensor_id, firmware>>

\* a step `x?` of make_periodic: on Err the error is returned and self is dropped
PeriodicStep(x, next) ==
    /\ io' = io \o x.io
    /\ IF x.res.ok
       THEN /\ pc' = next
            /\ UNCHANGED <<state, ret, locals>>
       ELSE /\ pc' = "idle"
            /\ ret' = Some(x.res)
            /\ state' = "Consumed"
            /\ locals' = NoLocals
    /\ UNCHANGED <<config, sensor_id, firmware, call, args>>

\* self.wake().await?
make_periodic_wake ==
    /\ pc = "make_periodic_wake"
    /\ \E w \in WriteOutcomes :
          IF Sent(w)
          THEN AwaitReply(wake(Self, w, NoRead), "make_periodic_wake_reply")
          ELSE PeriodicStep(wake(Self, w, NoRead), "make_periodic_set_period")

\* ... and its reply
make_periodic_wake_reply ==
    /\ pc = "make_periodic_wake_reply"
    /\ \E r \in ReadOutcomes :
          PeriodicStep(FromRead(wake(Self, WriteOk(SEND_BUF_SIZE), r)), "make_periodic_set_period")

\* self.set_period(minutes).await?
make_periodic_set_period ==
    /\ pc = "make_periodic_set_period"
    /\ \E w \in WriteOutcomes :
          IF Sent(w)
          THEN AwaitReply(set_period(Self, unwrap(locals.minutes), w, NoRead),
                  "make_periodic_set_period_reply")
          ELSE PeriodicStep(set_period(Self, unwrap(locals.minutes), w, NoRead),
                  "make_periodic_set_runmode_active")

\* ... and its reply
make_periodic_set_period_reply ==
    /\ pc = "make_periodic_set_period_reply"
    /\ \E r \in ReadOutcomes :
          PeriodicStep(FromRead(set_period(Self, unwrap(locals.minutes), WriteOk(SEND_BUF_SIZE), r)),
                  "make_periodic_set_runmode_active")

\* self.set_runmode_active().await?; Ok(SDS011::<RW, Periodic> { .. })
make_periodic_set_runmode_active ==
    /\ pc = "make_periodic_set_runmode_active"
    /\ \E w \in WriteOutcomes :
          IF Sent(w)
          THEN AwaitReply(set_runmode_active(Self, w, NoRead),
                  "make_periodic_set_runmode_active_reply")
          ELSE PeriodicReturn(set_runmode_active(Self, w, NoRead))

\* ... and its reply
make_periodic_set_runmode_active_reply ==
    /\ pc = "make_periodic_set_runmode_active_reply"
    /\ \E r \in ReadOutcomes :
          PeriodicReturn(FromRead(set_runmode_active(Self, WriteOk(SEND_BUF_SIZE), r)))

\* the future of make_periodic is dropped before it completes: the driver it took
\* goes with it
make_periodic_dropped ==
    /\ call = "make_periodic"
    /\ pc # "idle"
    /\ pc' = "idle"
    /\ state' = "Consumed"
    /\ ret' = None
    /\ locals' = NoLocals
    /\ UNCHANGED <<config, sensor_id, firmware, call, args, io>>

\* Periodic_measure as it would be with read_sensor(true)
Periodic_measure_queries ==
    /\ pc = "idle"
    /\ state = "Periodic"
    /\ call' = "Periodic::measure"
    /\ args' = <<>>
    /\ \E w \in WriteOutcomes : \E r \in ReadsAfter(w) :
          TailCall(read_sensor(Self, TRUE, w, r))
    /\ UNCHANGED <<state, config, sensor_id, firmware>>

\* SDS011<RW, Periodic>::measure: self.read_sensor(false)
Periodic_measure ==
    /\ pc = "idle"
    /\ state = "Periodic"
    /\ call' = "Periodic::measure"
    /\ args' = <<>>
    /\ \E r \in ReadOutcomes :
          TailCall(read_sensor(Self, FALSE, WriteOk(SEND_BUF_SIZE), r))
    /\ UNCHANGED <<state, config, sensor_id, firmware>>

\* accessors of the Polling and Periodic phases; Panicked stands for the
\* `expect("sensor is initialized")` abort
Panicked == <<"panicked">>
id == IF is_some(sensor_id) THEN sensor_id ELSE Panicked
version == IF is_some(firmware) THEN firmware ELSE Panicked

Next ==
    \/ New
    \/ init_delay
    \/ init_wake
    \/ init_wake_reply
    \/ init_set_runmode_query
    \/ init_set_runmode_query_reply
    \/ init_get_firmware
    \/ init_get_firmware_reply
    \/ init_sleep
    \/ init_sleep_reply
    \/ init_dropped
    \/ Polling_measure_delay
    \/ Polling_measure_wake
    \/ Polling_measure_wake_reply
    \/ Polling_measure_dummy
    \/ Polling_measure_dummy_reply
    \/ Polling_measure_spin
    \/ Polling_measure_real
    \/ Polling_measure_real_reply
    \/ Polling_measure_sleep
    \/ Polling_measure_sleep_reply
    \/ Polling_measure_dropped
    \/ make_periodic_check
    \/ make_periodic_wake
    \/ make_periodic_wake_reply
    \/ make_periodic_set_period
    \/ make_periodic_set_period_reply
    \/ make_periodic_set_runmode_active
    \/ make_periodic_set_runmode_active_reply
    \/ make_periodic_dropped
    \/ Periodic_measure

Spec == Init /\ [][Next]_vars

----------------------------------------------------------------------------
\* message.rs on its own: Message::parse_reply and Message::create_query applied
\* to inputs drawn at the start.  The driver's variables stay as new leaves
\* them; args holds the input, ret the value returned.

MaxSubcommand == 9      \* replies carry a subcommand byte in 0..MaxSubcommand
MaxPayloadByte == 32    \* and a mode / period byte in 0..MaxPayloadByte, or 0xFF

\* replies of every command and subcommand, with right and wrong head, tail,
\* flag, mode and checksum
ReplyInputs ==
    {Put(Frame(head, cmd, sub, b3, b4, 0, IdA, tail), 8,
         wrapping_add(At(Frame(head, cmd, sub, b3, b4, 0, IdA, tail), 8), off)) :
        head \in {170, 0}, tail \in {171, 255, 0}, cmd \in {192, 197, 193},
        sub \in 0..MaxSubcommand, b3 \in {0, 1, 2},
        b4 \in (0..MaxPayloadByte) \cup {255}, off \in {0, 1}}

\* measurement replies with low, high and equal payload bytes, of several devices
MeasurementInputs ==
    {Reply(192, b2, b3, b4, b5, dev) :
        b2 \in {0, 4, 212, 255}, b3 \in {0, 4, 212, 255},
        b4 \in {0, 10, 58, 255}, b5 \in {0, 10, 58, 255}, dev \in {0, IdA, IdB, IdAll}}

Targets == {None, Some(0), Some(IdA), Some(IdB), Some(IdAll)}
NewIds == {0, IdA - 351, 255, 65280, IdA, IdAll}
PeriodArgs == {0, 1, 30, 31, 255}

\* the input is a Message of the given Kind for some target (Message::new)
QueryOf(kind) == \E t \in Targets : args = <<Message_new(kind, t)>>
QueryInput ==
    \/ \E q \in {"Query", "Set"}, r \in {"Active", "Query"} :
          QueryOf(Kind_ReportingMode([query |-> q, reporting |-> r]))
    \/ QueryOf(Kind_Query(None))
    \/ QueryOf(Kind_Query(Some([pm25 |-> 1236, pm10 |-> 2618])))
    \/ \E d \in NewIds : QueryOf(Kind_SetDeviceID(d))
    \/ \E q \in {"Query", "Set"}, z \in {"Sleep", "Work"} :
          QueryOf(Kind_Sleep([query |-> q, sleep |-> z]))
    \/ \E q \in {"Query", "Set"}, n \in PeriodArgs :
          QueryOf(Kind_WorkingPeriod([query |-> q, minutes |-> n]))
    \/ QueryOf(Kind_FWVersion(None))
    \/ QueryOf(Kind_FWVersion(Some([year |-> 15, month |-> 7, day |-> 10])))

CodecInit ==
    /\ state = "Uninitialized"
    /\ config = Config_default
    /\ sensor_id = None
    /\ firmware = None
    /\ pc = "idle"
    /\ locals = NoLocals
    /\ io = <<>>
    /\ ret = None
    /\ \/ call = "Message::parse_reply" /\ \E data \in ReplyInputs : args = <<data>>
       \/ call = "Message::parse_reply" /\ \E data \in MeasurementInputs : args = <<data>>
       \/ call = "Message::create_query" /\ QueryInput

\* Message::parse_reply(&data)
Message_parse_reply ==
    /\ call = "Message::parse_reply"
    /\ ret = None
    /\ ret' = Some(parse_reply(args[1]))
    /\ UNCHANGED <<state, config, sensor_id, firmware, pc, call, args, locals, io>>

\* msg.create_query()
Message_create_query ==
    /\ call = "Message::create_query"
    /\ ret = None
    /\ ret' = Some(create_query(args[1]))
    /\ UNCHANGED <<state, config, sensor_id, firmware, pc, call, args, locals, io>>

\* the reply a device would give that repeats a query's subcommand, payload
\* bytes 3..5 and target id (the shape of the protocol's confirmations)
AsReply(query) ==
    Reply(197, At(query, 2), At(query, 3), At(query, 4), At(query, 5),
          u16_from_be_bytes(At(query, 15), At(query, 16)))

\* Message::parse_reply applied to the confirmation of an encoded query
Message_parse_reply_of_query ==
    /\ call = "Message::create_query"
    /\ ret # None
    /\ Len(unwrap(ret)) = SEND_BUF_SIZE
    /\ call' = "Message::parse_reply(confirmation)"
    /\ args' = <<args[1], AsReply(unwrap(ret))>>
    /\ ret' = Some(parse_reply(AsReply(unwrap(ret))))
    /\ UNCHANGED <<state, config, sensor_id, firmware, pc, locals, io>>

CodecNext ==
    \/ Message_parse_reply
    \/ Message_create_query
    \/ Message_parse_reply_of_query

CodecSpec == CodecInit /\ [][CodecNext]_vars

----------------------------------------------------------------------------
\* A Polling driver whose measure has just failed, and the measures that follow.

\* the k-th exchange of Polling::measure
MeasureExchange(k, self, w, r) ==
    CASE k = 1 -> wake(self, w, r)
      [] k \in {2, 3} -> read_sensor(self, TRUE, w, r)
      [] k = 4 -> sleep(self, w, r)

\* the events of a measure whose exchanges before the k-th were answered well
MeasureEventsBefore(k, self) ==
    <<DelayEv(self.config.sleep_delay)>>
        \o (IF k > 1
            THEN wake(self, WriteOk(SEND_BUF_SIZE),
                      ReadOk(READ_BUF_SIZE, Reply(197, 6, 1, 1, 0, IdA))).io
            ELSE <<>>)
        \o (IF k > 2
            THEN read_sensor(self, TRUE, WriteOk(SEND_BUF_SIZE),
                             ReadOk(READ_BUF_SIZE, Reply(192, 212, 4, 58, 10, IdA))).io
                     \o <<DelayEv(self.config.measure_delay)>>
            ELSE <<>>)
        \o (IF k > 3
            THEN read_sensor(self, TRUE, WriteOk(SEND_BUF_SIZE),
                             ReadOk(READ_BUF_SIZE, Reply(192, 213, 4, 58, 10, IdA))).io
            ELSE <<>>)

\* the measure has returned the error x of its k-th exchange
MeasureFailedAt(k, x) ==
    /\ ~x.res.ok
    /\ io = MeasureEventsBefore(k, Self) \o x.io
    /\ ret = Some(x.res)

RecoveryInit ==
    /\ state = "Polling"
    /\ config \in Configs
    /\ sensor_id \in {Some(IdA), Some(IdB)}
    /\ firmware = Some([year |-> 15, month |-> 7, day |-> 10])
    /\ pc = "idle"
    /\ call = "Polling::measure"
    /\ args = <<>>
    /\ locals = NoLocals
    /\ \E k \in 1..4 : \E w \in WriteOutcomes : \E r \in ReadsAfter(w) :
          MeasureFailedAt(k, MeasureExchange(k, Self, w, r))

RecoveryNext ==
    \/ Polling_measure_delay
    \/ Polling_measure_wake
    \/ Polling_measure_wake_reply
    \/ Polling_measure_dummy
    \/ Polling_measure_dummy_reply
    \/ Polling_measure_spin
    \/ Polling_measure_real
    \/ Polling_measure_real_reply
    \/ Polling_measure_sleep
    \/ Polling_measure_sleep_reply
    \/ Polling_measure_dropped

RecoverySpec == RecoveryInit /\ [][RecoveryNext]_vars

----------------------------------------------------------------------------
\* Vocabulary of the properties: the protocol's frames as bytes on the wire

Returned == pc = "idle" /\ ret # None
ReturnedOk == Returned /\ unwrap(ret).ok
ReturnedErr == Returned /\ ~unwrap(ret).ok
ReturnedError(name) == ReturnedErr /\ unwrap(ret).err.e = name

\* ev is the write of a 19-byte query with subcommand sub and payload bytes b3, b4
IsQuery(ev, sub, b3, b4) ==
    /\ ev.op = "write"
    /\ Len(ev.buf) = 19
    /\ At(ev.buf, 0) = 170 /\ At(ev.buf, 1) = 180 /\ At(ev.buf, 18) = 171
    /\ At(ev.buf, 2) = sub /\ At(ev.buf, 3) = b3 /\ At(ev.buf, 4) = b4
IsWake(ev) == IsQuery(ev, 6, 1, 1)
IsSleep(ev) == IsQuery(ev, 6, 1, 0)
IsSetQueryMode(ev) == IsQuery(ev, 2, 1, 1)
IsSetActiveMode(ev) == IsQuery(ev, 2, 1, 0)
IsFirmwareQuery(ev) == IsQuery(ev, 7, 0, 0)
IsMeasurementQuery(ev) == IsQuery(ev, 4, 0, 0)
IsSetPeriod(ev, minutes) == IsQuery(ev, 8, 1, minutes)

\* ev is a read that delivered a whole frame
IsFullRead(ev) == ev.op = "read" /\ ev.got.ok /\ ev.got.n = 10
\* ev delivered a command reply (0xC5) with subcommand sub
IsReply(ev, sub) == IsFullRead(ev) /\ At(ev.got.buf, 1) = 197 /\ At(ev.got.buf, 2) = sub
\* ... whose mode / value byte is b4
IsReplyWith(ev, sub, b4) == IsReply(ev, sub) /\ At(ev.got.buf, 4) = b4
\* ev delivered a measurement frame (0xC0)
IsMeasurement(ev) == IsFullRead(ev) /\ At(ev.got.buf, 1) = 192

IsDelay(ev, ms) == ev.op = "delay" /\ ev.ms = ms

InitOk == call = "init" /\ ReturnedOk

----------------------------------------------------------------------------
\* C1: a driver starts Uninitialized; Polling is entered only by an init that
\* returns Ok, Periodic only by a make_periodic on a Polling driver that
\* returns Ok; the two measure operations never change the phase, whether they
\* succeed or fail; and nothing leads out of Periodic.
C1_Step ==
    /\ (state' = "Polling" /\ state # "Polling") =>
            (state = "Uninitialized" /\ call' = "init" /\ ReturnedOk')
    /\ (state' = "Periodic" /\ state # "Periodic") =>
            (state = "Polling" /\ call' = "make_periodic" /\ ReturnedOk')
    /\ call' \in {"Polling::measure", "Periodic::measure"} => state' = state
    /\ state = "Periodic" => state' = "Periodic"
    /\ (state' = "Uninitialized" /\ state # "Uninitialized") => call' = "new"
C1_PhaseLifecycle == state = "Uninitialized" /\ [][C1_Step]_vars
\* a measure has failed in the Periodic phase, which is still the phase
C1_Witness == state = "Periodic" /\ call = "Periodic::measure" /\ ReturnedErr

\* C2: an init that returns Ok has done exactly: one delay of the configured
\* sleep delay, a wake exchange, a set-query-mode exchange, a firmware exchange
\* and a sleep exchange, in this order.
C2_InitSequence ==
    InitOk =>
        /\ Len(io) = 9
        /\ IsDelay(io[1], config.sleep_delay)
        /\ IsWake(io[2]) /\ io[3].op = "read"
        /\ IsSetQueryMode(io[4]) /\ io[5].op = "read"
        /\ IsFirmwareQuery(io[6]) /\ io[7].op = "read"
        /\ IsSleep(io[8]) /\ io[9].op = "read"
C2_Witness == InitOk /\ Len(io) = 9 /\ config.sleep_delay = 20

\* C3: when init returns Ok, the last reporting-mode reply it read reports
\* Query mode (byte 4 = 1) and the last frame it read is a sleep reply that
\* reports Sleep (byte 4 = 0).
C3_InitLeavesSensorAsleepInQueryMode ==
    InitOk =>
        /\ \A i \in 1..Len(io) :
              (IsReply(io[i], 2) /\ \A j \in (i + 1)..Len(io) : ~IsReply(io[j], 2))
                  => IsReplyWith(io[i], 2, 1)
        /\ \E i \in 1..Len(io) : IsReply(io[i], 2)
        /\ IsReplyWith(io[Len(io)], 6, 0)
\* init has returned Ok on the quirky sleep confirmation that ends with 0xFF
C3_Witness == InitOk /\ IsReplyWith(io[Len(io)], 6, 0) /\ At(io[Len(io)].got.buf, 9) = 255

\* C4: when init returns Ok, id() is the big-endian value of bytes 6..8 of the
\* firmware reply (the 7th event of init) and version() is its bytes 3, 4, 5.
C4_InitLearnsIdAndVersion ==
    InitOk =>
        /\ IsReply(io[7], 7)
        /\ id = Some(256 * At(io[7].got.buf, 6) + At(io[7].got.buf, 7))
        /\ version = Some([year |-> At(io[7].got.buf, 3),
                           month |-> At(io[7].got.buf, 4),
                           day |-> At(io[7].got.buf, 5)])
\* the firmware reply carried another id than the wake, mode and sleep replies
C4_Witness ==
    /\ InitOk
    /\ At(io[7].got.buf, 7) # At(io[3].got.buf, 7)
    /\ At(io[7].got.buf, 7) # At(io[9].got.buf, 7)
    /\ At(io[7].got.buf, 6) # At(io[7].got.buf, 7)
    /\ At(io[7].got.buf, 3) # At(io[7].got.buf, 4)

----------------------------------------------------------------------------
\* what the events of one exchange show

\* the write handed over the whole query
WroteAll(ev) == ev.op = "write" /\ ev.did.ok /\ ev.did.n = 19
\* the read delivered a whole frame that decodes
Decodes(ev) == IsFullRead(ev) /\ parse_reply(ev.got.buf).ok
\* evs is a complete exchange whose reply is a command reply with subcommand sub
\* and a mode / value byte in modes
Confirms(evs, sub, modes) ==
    /\ Len(evs) = 2
    /\ WroteAll(evs[1])
    /\ Decodes(evs[2])
    /\ IsReply(evs[2], sub)
    /\ At(evs[2].got.buf, 4) \in modes
\* the positions where a call waits for the reply to the frame it has written
Waiting ==
    {"init_wake_reply", "init_set_runmode_query_reply", "init_get_firmware_reply",
     "init_sleep_reply", "measure_wake_reply", "measure_dummy_reply", "measure_real_reply",
     "measure_sleep_reply", "make_periodic_wake_reply", "make_periodic_set_period_reply",
     "make_periodic_set_runmode_active_reply"}
\* the exchange a position belongs to
ExchangeOf(p) ==
    CASE p = "init_wake_reply" -> "init_wake"
      [] p = "init_set_runmode_query_reply" -> "init_set_runmode_query"
      [] p = "init_get_firmware_reply" -> "init_get_firmware"
      [] p = "init_sleep_reply" -> "init_sleep"
      [] p = "measure_wake_reply" -> "measure_wake"
      [] p = "measure_dummy_reply" -> "measure_dummy"
      [] p = "measure_real_reply" -> "measure_real"
      [] p = "measure_sleep_reply" -> "measure_sleep"
      [] p = "make_periodic_wake_reply" -> "make_periodic_wake"
      [] p = "make_periodic_set_period_reply" -> "make_periodic_set_period"
      [] p = "make_periodic_set_runmode_active_reply" -> "make_periodic_set_runmode_active"
      [] OTHER -> p
\* the events of the exchange the step belongs to, as far as they have happened:
\* the step's own, after the frame written before when the step is the read
NewEvents == SubSeq(io', IF pc \in Waiting THEN Len(io) ELSE Len(io) + 1, Len(io'))
\* the exchange the step ends, by a write that fails or falls short or by its
\* read; "none" when the step ends none
Ended ==
    IF pc # "idle" /\ Len(io') > Len(io) /\ pc' \notin Waiting THEN ExchangeOf(pc) ELSE "none"
\* the measurement a frame carries
ReadingOf(buf) ==
    [pm25 |-> At(buf, 2) + 256 * At(buf, 3), pm10 |-> At(buf, 4) + 256 * At(buf, 5)]

InitSteps == {"init_wake", "init_set_runmode_query", "init_get_firmware", "init_sleep"}
\* the subcommand of the reply each exchange of init waits for, and the mode it must report
InitSub(p) ==
    CASE p = "init_wake" -> 6
      [] p = "init_set_runmode_query" -> 2
      [] p = "init_get_firmware" -> 7
      [] p = "init_sleep" -> 6
InitModes(p) ==
    CASE p = "init_wake" -> {1}
      [] p = "init_set_runmode_query" -> {1}
      [] p = "init_get_firmware" -> U8
      [] p = "init_sleep" -> {0}

\* C5: when an exchange of init fails (write error, short write, read error,
\* short read, undecodable reply, reply of another kind, reply reporting the
\* wrong mode) init returns that error at once: the step adds only the events of
\* that exchange, no Polling driver results and no later step runs; a decoded
\* reply of another kind gives UnexpectedType, one of the right kind reporting
\* the wrong mode gives OperationFailed.
C5_Failed(evs, sub) ==
    /\ pc' = "idle"
    /\ ReturnedErr'
    /\ state' = "Consumed"
    /\ sensor_id' = None /\ firmware' = None
    /\ Len(evs) \in {1, 2}
    /\ evs[1].op = "write"
    /\ Len(evs) = 2 => evs[2].op = "read"
    /\ ~evs[1].did.ok => ReturnedError("WriteError")' /\ Len(evs) = 1
    /\ (evs[1].did.ok /\ ~WroteAll(evs[1])) => ReturnedError("ShortWrite")' /\ Len(evs) = 1
    /\ WroteAll(evs[1]) => Len(evs) = 2
    /\ (Len(evs) = 2 /\ ~evs[2].got.ok) => ReturnedError("ReadError")'
    /\ (Len(evs) = 2 /\ evs[2].got.ok /\ ~IsFullRead(evs[2])) => ReturnedError("ShortRead")'
    /\ (Len(evs) = 2 /\ IsFullRead(evs[2]) /\ ~Decodes(evs[2])) => ReturnedError("ParseError")'
    /\ (Len(evs) = 2 /\ Decodes(evs[2]) /\ ~IsReply(evs[2], sub)) =>
            ReturnedError("UnexpectedType")'
    /\ (Len(evs) = 2 /\ Decodes(evs[2]) /\ IsReply(evs[2], sub)) =>
            ReturnedError("OperationFailed")'
C5_Step ==
    /\ Ended \in InitSteps =>
          \/ Confirms(NewEvents, InitSub(Ended), InitModes(Ended))
          \/ C5_Failed(NewEvents, InitSub(Ended))
    /\ (call = "init" /\ ReturnedErr) => (call' = "new" /\ io' = <<>>)
C5_InitStopsAtFirstFailure == [][C5_Step]_vars
\* init has failed in its second exchange on a reply of another kind
C5_Witness ==
    /\ call = "init" /\ ReturnedError("UnexpectedType")
    /\ Len(io) = 5 /\ state = "Consumed"

\* C6: a Polling measure that returns Ok has done exactly: the sleep_delay
\* delay, a wake exchange, a measurement query, the measure_delay delay, a
\* second measurement query and a sleep exchange, in this order, and returns
\* the reading of the second reply.
C6_MeasureSequence ==
    (call = "Polling::measure" /\ ReturnedOk) =>
        /\ Len(io) = 10
        /\ IsDelay(io[1], config.sleep_delay)
        /\ IsWake(io[2]) /\ io[3].op = "read"
        /\ IsMeasurementQuery(io[4]) /\ IsMeasurement(io[5])
        /\ IsDelay(io[6], config.measure_delay)
        /\ IsMeasurementQuery(io[7]) /\ IsMeasurement(io[8])
        /\ IsSleep(io[9]) /\ io[10].op = "read"
        /\ unwrap(ret).val = ReadingOf(io[8].got.buf)
\* a measure has returned Ok after two replies that carry different readings
C6_Witness ==
    /\ call = "Polling::measure" /\ ReturnedOk
    /\ ReadingOf(io[5].got.buf) # ReadingOf(io[8].got.buf)

\* C7: when the second measurement query of a Polling measure fails, the error
\* is returned at once and the call has written no sleep frame: the one
\* sleep-mode exchange of the call is the wake, confirmed with Work.
C7_Step ==
    (Ended = "measure_real" /\ ReturnedErr') =>
        /\ Len(NewEvents) \in {1, 2}
        /\ \A i \in 1..Len(io') : ~IsSleep(io'[i])
        /\ \A i \in 1..Len(io') : IsQuery(io'[i], 6, 1, 1) <=> i = 2
        /\ IsReplyWith(io'[3], 6, 1)
        /\ state' = "Polling"
C7_FailedMeasureLeavesSensorAwake == [][C7_Step]_vars
\* a measure has failed on the reply to its second query
C7_Witness ==
    /\ call = "Polling::measure" /\ ReturnedErr
    /\ Len(io) = 8 /\ io[6].op = "delay"

\* C8: make_periodic with minutes > 30 returns Invalid without any delay,
\* write or read; with minutes <= 30 it does not return Invalid and goes on
\* to its delay.
C8_MinutesChecked ==
    call = "make_periodic" =>
        /\ args[1] > 30 => (ReturnedError("Invalid") /\ io = <<>>)
        /\ args[1] <= 30 =>
              (~ReturnedError("Invalid") /\ Len(io) >= 1 /\ IsDelay(io[1], config.sleep_delay))
C8_Witness == call = "make_periodic" /\ args = <<31>> /\ ReturnedError("Invalid") /\ io = <<>>

\* C9: a make_periodic(minutes) that returns Ok has done exactly: the
\* sleep_delay delay, a wake exchange, a set-period exchange whose reply reports
\* the same minutes, and a set-active-mode exchange whose reply reports Active;
\* it has written no sleep frame and the driver is Periodic.
C9_MakePeriodicSequence ==
    (call = "make_periodic" /\ ReturnedOk) =>
        /\ args[1] <= 30
        /\ Len(io) = 7
        /\ IsDelay(io[1], config.sleep_delay)
        /\ IsWake(io[2]) /\ IsReplyWith(io[3], 6, 1)
        /\ IsSetPeriod(io[4], args[1]) /\ IsReplyWith(io[5], 8, args[1])
        /\ IsSetActiveMode(io[6]) /\ IsReplyWith(io[7], 2, 0)
        /\ \A i \in 1..Len(io) : ~IsSleep(io[i])
        /\ state = "Periodic"
C9_Witness == call = "make_periodic" /\ ReturnedOk /\ args = <<30>>

\* C10: a Periodic measure does one read of 10 bytes and nothing else (no
\* write, no delay); it returns the reading when the frame decodes to a
\* measurement and UnexpectedType when it decodes to anything else.
C10_PeriodicMeasureOnlyReads ==
    (call = "Periodic::measure" /\ Returned) =>
        /\ Len(io) = 1
        /\ io[1].op = "read" /\ io[1].len = 10
        /\ (Decodes(io[1]) /\ IsMeasurement(io[1])) =>
              (ReturnedOk /\ unwrap(ret).val = ReadingOf(io[1].got.buf))
        /\ (Decodes(io[1]) /\ ~IsMeasurement(io[1])) => ReturnedError("UnexpectedType")
        /\ ReturnedOk => (Decodes(io[1]) /\ IsMeasurement(io[1]))
\* a Periodic measure has read a frame of another kind
C10_Witness ==
    /\ call = "Periodic::measure" /\ ReturnedError("UnexpectedType")
    /\ Decodes(io[1]) /\ IsReply(io[1], 6)

----------------------------------------------------------------------------
\* C11: whenever the driver is Polling or Periodic, id() and version() return
\* the stored values (their `expect` does not abort), and no step that leaves
\* the driver Polling or Periodic (a measure, successful or failed, or a
\* make_periodic) changes what they return.
Initialized(s) == s \in {"Polling", "Periodic"}
C11_Step ==
    /\ Initialized(state') =>
          /\ is_some(sensor_id') /\ id' = sensor_id'
          /\ is_some(firmware') /\ version' = firmware'
    /\ (Initialized(state) /\ Initialized(state')) => (id' = id /\ version' = version)
C11_IdAndVersionKept == [][C11_Step]_vars
\* a Periodic driver that learned the id 0x0102 has measured a frame of device 0xA160
C11_Witness ==
    /\ state = "Periodic" /\ call = "Periodic::measure" /\ ReturnedOk
    /\ id = Some(IdB) /\ version = Some([year |-> 15, month |-> 7, day |-> 10])
    /\ At(io[1].got.buf, 6) = 161

\* C12: every frame any public operation writes carries the broadcast target
\* 0xFF 0xFF in bytes 15 and 16.
C12_AlwaysBroadcast ==
    \A i \in 1..Len(io) :
        io[i].op = "write" => (At(io[i].buf, 15) = 255 /\ At(io[i].buf, 16) = 255)

\* C13: no exchange is tried again.  A call writes at most 4 (init), 4 (Polling
\* measure), 3 (make_periodic), 0 (new, Periodic measure) frames; a read other
\* than the Periodic measure's follows the complete write of its query, so a
\* frame is followed by at most one read; an event before the last one of a
\* call has succeeded; a call whose last event failed has returned the error,
\* one whose last event is a complete write has not returned; and after a call
\* returned nothing is added to its events.
Writes(evs) == Cardinality({i \in 1..Len(evs) : evs[i].op = "write"})
MaxFrames(c) ==
    CASE c = "new" -> 0
      [] c = "init" -> 4
      [] c = "Polling::measure" -> 4
      [] c = "make_periodic" -> 3
      [] c = "Periodic::measure" -> 0
EventFailed(ev) ==
    \/ ev.op = "write" /\ ~WroteAll(ev)
    \/ ev.op = "read" /\ ~Decodes(ev)
C13_Inv ==
    /\ Writes(io) <= MaxFrames(call)
    /\ call = "new" => io = <<>>
    /\ call = "Periodic::measure" => Len(io) <= 1
    /\ \A i \in 1..Len(io) :
          /\ (io[i].op = "read" /\ call # "Periodic::measure") =>
                (i > 1 /\ WroteAll(io[i - 1]))
          /\ i < Len(io) => ~EventFailed(io[i])
          /\ (i = Len(io) /\ EventFailed(io[i])) => ReturnedErr
          /\ (i = Len(io) /\ WroteAll(io[i])) => ~Returned
C13_Step ==
    /\ C13_Inv'
    /\ Returned => (Writes(io') = 0 /\ Len(io') <= 1)
C13_NoRetry == C13_Inv /\ [][C13_Step]_vars
\* init has failed on a short write of its third frame
C13_Witness ==
    /\ call = "init" /\ ReturnedError("ShortWrite")
    /\ Len(io) = 6 /\ Writes(io) = 3 /\ io[6].did.n = 18

----------------------------------------------------------------------------
\* what a decoded or encoded frame shows, read off the bytes

Parsed == call = "Message::parse_reply" /\ ret # None
Encoded == call = "Message::create_query" /\ ret # None
RECURSIVE SumBytes(_, _, _)
\* data[from] + .. + data[to - 1]
SumBytes(data, from, to) ==
    IF from >= to THEN 0 ELSE At(data, from) + SumBytes(data, from + 1, to)
SumOk(data) == SumBytes(data, 2, 8) % 256 = At(data, 8)
Framed(data) == At(data, 0) = 170 /\ At(data, 9) = 171
\* the kind a command byte and a subcommand byte stand for, "" when for none
KindOf(cmd, sub) ==
    CASE cmd = 192 -> "Query"
      [] cmd = 197 /\ sub = 2 -> "ReportingMode"
      [] cmd = 197 /\ sub = 5 -> "SetDeviceID"
      [] cmd = 197 /\ sub = 6 -> "Sleep"
      [] cmd = 197 /\ sub = 7 -> "FWVersion"
      [] cmd = 197 /\ sub = 8 -> "WorkingPeriod"
      [] OTHER -> ""
KindOfReply(data) == KindOf(At(data, 1), At(data, 2))
\* the payload fields of the reply's kind are in their ranges
FieldsOk(data) ==
    CASE KindOfReply(data) \in {"ReportingMode", "Sleep"} ->
            At(data, 3) \in {0, 1} /\ At(data, 4) \in {0, 1}
      [] KindOfReply(data) = "WorkingPeriod" -> At(data, 3) \in {0, 1} /\ At(data, 4) <= 30
      [] OTHER -> KindOfReply(data) # ""
IsError(r, e) == ~r.ok /\ r.err = e

\* C14 as stated: a reply decodes if and only if its checksum byte is the sum
\* of bytes 2..8, and otherwise the Checksum error with both values results.
C14_DecodesIffChecksum ==
    Parsed =>
        /\ unwrap(ret).ok <=> SumOk(args[1])
        /\ ~SumOk(args[1]) =>
              IsError(unwrap(ret), Checksum(SumBytes(args[1], 2, 8) % 256, At(args[1], 8)))
\* C14, amended: the Checksum error, carrying the computed sum and byte 8, is
\* returned if and only if byte 8 is not the wrapping sum of bytes 2..8; a reply
\* that decodes has the right checksum byte (a reply with the right checksum
\* byte may still be rejected for another reason).
C14_ChecksumChecked ==
    Parsed =>
        /\ unwrap(ret).ok => SumOk(args[1])
        /\ ~SumOk(args[1]) <=> (~unwrap(ret).ok /\ unwrap(ret).err.e = "Checksum")
        /\ ~SumOk(args[1]) =>
              IsError(unwrap(ret), Checksum(SumBytes(args[1], 2, 8) % 256, At(args[1], 8)))
\* a measurement frame, right but for its checksum byte, has been rejected
C14_Witness ==
    /\ Parsed /\ ~SumOk(args[1])
    /\ Framed(args[1]) /\ At(args[1], 1) = 192
    /\ unwrap(ret).err.e = "Checksum" /\ unwrap(ret).err.a # unwrap(ret).err.b

\* the bytes create_query should give for message m
TargetBytes(m) ==
    IF m.sensor_id = None THEN <<255, 255>>
    ELSE <<unwrap(m.sensor_id) \div 256, unwrap(m.sensor_id) % 256>>
\* the payload bytes (3..15) the kind of m populates
Populated(m) ==
    CASE m.kind.tag \in {"ReportingMode", "Sleep", "WorkingPeriod"} -> {3, 4}
      [] m.kind.tag = "SetDeviceID" -> {13, 14}
      [] OTHER -> {}
SubcommandOf(tag) ==
    CASE tag = "ReportingMode" -> 2
      [] tag = "Query" -> 4
      [] tag = "SetDeviceID" -> 5
      [] tag = "Sleep" -> 6
      [] tag = "FWVersion" -> 7
      [] tag = "WorkingPeriod" -> 8
QueryLayout(m, out) ==
    /\ Len(out) = 19
    /\ At(out, 0) = 170 /\ At(out, 1) = 180 /\ At(out, 18) = 171
    /\ At(out, 2) = SubcommandOf(m.kind.tag)
    /\ <<At(out, 15), At(out, 16)>> = TargetBytes(m)
    /\ At(out, 17) = SumBytes(out, 2, 17) % 256
    /\ \A i \in 3..14 : i \notin Populated(m) => At(out, i) = 0

\* C15: for every kind and every target create_query returns 19 bytes: 0xAA,
\* 0xB4, the kind's subcommand, the payload (0 where the kind populates
\* nothing), the target id big-endian or 0xFF 0xFF, the sum of bytes 2..17
\* mod 256, 0xAB.
C15_QueryLayout == Encoded => QueryLayout(args[1], unwrap(ret))

\* C16: create_query returns a frame of 19 bytes for every kind, SetDeviceID
\* with any new id included, and every target: it never aborts.
C16_EncodeNeverAborts ==
    Encoded => (Len(unwrap(ret)) = SEND_BUF_SIZE /\ \A i \in 1..SEND_BUF_SIZE : unwrap(ret)[i] \in U8)

\* C17: a Sleep reply with the right checksum and valid fields that ends with
\* 0xFF decodes when its flag is `set`, and is rejected with the HeadTail error
\* when its flag is `query`.
C17_SleepQuirk ==
    (Parsed /\ SumOk(args[1]) /\ KindOfReply(args[1]) = "Sleep" /\ FieldsOk(args[1])
        /\ At(args[1], 9) = 255) =>
        /\ At(args[1], 3) = 1 => unwrap(ret).ok
        /\ At(args[1], 3) = 0 => IsError(unwrap(ret), HeadTail)

\* C18: but for the set-sleep reply with head 0xAA and tail 0xFF, every reply
\* with the right checksum, a known kind and valid fields whose head is not
\* 0xAA or whose tail is not 0xAB is rejected with the HeadTail error.
C18_HeadTailStrict ==
    (Parsed /\ SumOk(args[1]) /\ FieldsOk(args[1]) /\ ~Framed(args[1])
        /\ ~(KindOfReply(args[1]) = "Sleep" /\ At(args[1], 3) = 1
             /\ At(args[1], 0) = 170 /\ At(args[1], 9) = 255)) =>
        IsError(unwrap(ret), HeadTail)

\* C19: for a reply with the right checksum the command byte, and for 0xC5
\* the subcommand byte, select the kind: a reply that decodes is a Measurement
\* for 0xC0 and, for 0xC5, a ReportingMode, SetDeviceID, Sleep, FirmwareVersion
\* or WorkingPeriod for subcommand 2, 5, 6, 7, 8, and it does decode when its
\* fields are valid and it is framed by 0xAA .. 0xAB; any other command byte
\* gives CommandID with that byte, any other subcommand of 0xC5 gives
\* SubCommand with that byte, and no other reply gives one of these two errors.
C19_Dispatch ==
    (Parsed /\ SumOk(args[1])) =>
        /\ At(args[1], 1) \notin {192, 197} => IsError(unwrap(ret), CommandID(At(args[1], 1)))
        /\ (At(args[1], 1) = 197 /\ At(args[1], 2) \notin {2, 5, 6, 7, 8}) =>
              IsError(unwrap(ret), SubCommand(At(args[1], 2)))
        /\ unwrap(ret).ok => unwrap(ret).val.kind.tag = KindOfReply(args[1])
        /\ (KindOfReply(args[1]) # "" /\ ~unwrap(ret).ok) =>
              unwrap(ret).err.e \in {"BooleanField", "TimeField", "HeadTail"}
        /\ (FieldsOk(args[1]) /\ Framed(args[1])) => unwrap(ret).ok
\* a firmware reply and a working period reply have been told apart
C19_Witness ==
    /\ Parsed /\ SumOk(args[1]) /\ unwrap(ret).ok
    /\ At(args[1], 1) = 197 /\ At(args[1], 2) = 7 /\ At(args[1], 4) = 31
    /\ unwrap(ret).val.kind.tag = "FWVersion"

\* C20: in a ReportingMode, Sleep or WorkingPeriod reply with the right
\* checksum a flag byte (3) other than 0 or 1 gives BooleanField; with a valid
\* flag, a mode byte (4) other than 0 or 1 of a ReportingMode or Sleep reply
\* gives BooleanField, and a period byte (4) of a WorkingPeriod reply gives
\* TimeField with that byte when it is 31 or more and is accepted as the
\* period when it is in 0..30.
C20_FieldsValidated ==
    (Parsed /\ SumOk(args[1])
        /\ KindOfReply(args[1]) \in {"ReportingMode", "Sleep", "WorkingPeriod"}) =>
        /\ At(args[1], 3) \notin {0, 1} => IsError(unwrap(ret), BooleanField(At(args[1], 3)))
        /\ (At(args[1], 3) \in {0, 1} /\ KindOfReply(args[1]) # "WorkingPeriod"
                /\ At(args[1], 4) \notin {0, 1}) =>
              IsError(unwrap(ret), BooleanField(At(args[1], 4)))
        /\ (At(args[1], 3) \in {0, 1} /\ KindOfReply(args[1]) = "WorkingPeriod") =>
              /\ At(args[1], 4) >= 31 => IsError(unwrap(ret), TimeField(At(args[1], 4)))
              /\ At(args[1], 4) <= 30 =>
                    /\ ~unwrap(ret).ok => unwrap(ret).err.e = "HeadTail"
                    /\ Framed(args[1]) =>
                          (unwrap(ret).ok /\ unwrap(ret).val.kind.v.minutes = At(args[1], 4))
\* a working period reply reporting 30 minutes has been accepted
C20_Witness ==
    /\ Parsed /\ SumOk(args[1]) /\ KindOfReply(args[1]) = "WorkingPeriod"
    /\ At(args[1], 4) = 30 /\ unwrap(ret).ok /\ unwrap(ret).val.kind.v.minutes = 30

----------------------------------------------------------------------------
\* C21 as stated: every 16-bit field is most significant byte first: the two
\* readings and the device id of a reply, the target id and the new device id
\* of a query.
IdsBigEndian ==
    /\ (Parsed /\ unwrap(ret).ok) =>
          /\ unwrap(ret).val.sensor_id = Some(256 * At(args[1], 6) + At(args[1], 7))
          /\ unwrap(ret).val.kind.tag = "SetDeviceID" =>
                unwrap(ret).val.kind.v = 256 * At(args[1], 6) + At(args[1], 7)
    /\ (Encoded /\ Len(unwrap(ret)) = 19) =>
          /\ args[1].sensor_id # None =>
                256 * At(unwrap(ret), 15) + At(unwrap(ret), 16) = unwrap(args[1].sensor_id)
          /\ args[1].kind.tag = "SetDeviceID" =>
                256 * At(unwrap(ret), 13) + At(unwrap(ret), 14) = args[1].kind.v
C21_AllBigEndian ==
    /\ IdsBigEndian
    /\ (Parsed /\ unwrap(ret).ok /\ unwrap(ret).val.kind.tag = "Query") =>
          /\ unwrap(unwrap(ret).val.kind.v).pm25 = 256 * At(args[1], 2) + At(args[1], 3)
          /\ unwrap(unwrap(ret).val.kind.v).pm10 = 256 * At(args[1], 4) + At(args[1], 5)
\* C21, amended: the device id of a reply, the target id and the new device id
\* of a query are most significant byte first; the two readings of a
\* Measurement reply are least significant byte first.
C21_IdsBigReadingsLittleEndian ==
    /\ IdsBigEndian
    /\ (Parsed /\ unwrap(ret).ok /\ unwrap(ret).val.kind.tag = "Query") =>
          /\ unwrap(unwrap(ret).val.kind.v).pm25 = At(args[1], 2) + 256 * At(args[1], 3)
          /\ unwrap(unwrap(ret).val.kind.v).pm10 = At(args[1], 4) + 256 * At(args[1], 5)
\* a measurement of device 0x0102 whose bytes differ within each reading
C21_Witness ==
    /\ Parsed /\ unwrap(ret).ok /\ unwrap(ret).val.kind.tag = "Query"
    /\ At(args[1], 2) = 4 /\ At(args[1], 3) = 212 /\ At(args[1], 4) = 10 /\ At(args[1], 5) = 58
    /\ unwrap(ret).val.sensor_id = Some(IdB)

\* C22: a reply with command 0xC0, the right checksum, head 0xAA and tail 0xAB
\* decodes, whatever its bytes 2..8, to the Measurement with pm25 = byte 2 +
\* 256 * byte 3 and pm10 = byte 4 + 256 * byte 5, of sensor 256 * byte 6 + byte 7.
C22_MeasurementDecode ==
    (Parsed /\ SumOk(args[1]) /\ At(args[1], 1) = 192 /\ Framed(args[1])) =>
        /\ unwrap(ret).ok
        /\ unwrap(ret).val.kind.tag = "Query"
        /\ unwrap(ret).val.kind.v =
              Some([pm25 |-> At(args[1], 2) + 256 * At(args[1], 3),
                    pm10 |-> At(args[1], 4) + 256 * At(args[1], 5)])
        /\ unwrap(ret).val.sensor_id = Some(256 * At(args[1], 6) + At(args[1], 7))
\* AA C0 D4 04 3A 0A A1 60 1D AB has given pm25 1236, pm10 2618, id 0xA160
C22_Witness ==
    /\ Parsed /\ args[1] = <<170, 192, 212, 4, 58, 10, 161, 96, 29, 171>>
    /\ unwrap(ret).ok
    /\ unwrap(ret).val.kind.v = Some([pm25 |-> 1236, pm10 |-> 2618])
    /\ unwrap(ret).val.sensor_id = Some(41312)

\* C23: a ReportingMode, Sleep or WorkingPeriod (0..30 minutes) query, with
\* either flag and any target, whose subcommand, payload and target bytes come
\* back as a reply decodes to the same kind with the same flag and mode or
\* minutes, from the sensor with the target's id (0xFFFF when there is none).
RoundTripped == call = "Message::parse_reply(confirmation)" /\ ret # None
C23_RoundTrip ==
    (RoundTripped
        /\ \/ args[1].kind.tag \in {"ReportingMode", "Sleep"}
           \/ args[1].kind.tag = "WorkingPeriod" /\ args[1].kind.v.minutes <= 30) =>
        /\ SumOk(args[2]) /\ Framed(args[2])
        /\ unwrap(ret).ok
        /\ unwrap(ret).val.kind.tag = args[1].kind.tag
        /\ unwrap(ret).val.kind.v = args[1].kind.v
        /\ unwrap(ret).val.sensor_id =
              (IF args[1].sensor_id = None THEN Some(65535) ELSE args[1].sensor_id)
\* a Sleep query with the `set` flag for device 0x0102 has come back
C23_Witness ==
    /\ RoundTripped /\ unwrap(ret).ok
    /\ args[1].kind.tag = "Sleep"
    /\ args[1].kind.v = [query |-> "Set", sleep |-> "Sleep"]
    /\ args[1].sensor_id = Some(IdB)
    /\ unwrap(ret).val.kind.v.query = "Set" /\ unwrap(ret).val.kind.v.sleep = "Sleep"

\* C27: parse_reply reports the first failing check in the order checksum,
\* command byte, subcommand byte, payload fields, head and tail: a wrong
\* checksum gives Checksum whatever the other bytes; with the right checksum
\* an unknown command, an unknown subcommand or an invalid field gives its own
\* error also when head or tail are wrong; HeadTail is given only when all the
\* other checks pass.
C27_CheckOrder ==
    Parsed =>
        /\ ~SumOk(args[1]) => (~unwrap(ret).ok /\ unwrap(ret).err.e = "Checksum")
        /\ (SumOk(args[1]) /\ At(args[1], 1) \notin {192, 197}) =>
              IsError(unwrap(ret), CommandID(At(args[1], 1)))
        /\ (SumOk(args[1]) /\ At(args[1], 1) = 197 /\ KindOfReply(args[1]) = "") =>
              IsError(unwrap(ret), SubCommand(At(args[1], 2)))
        /\ (SumOk(args[1]) /\ KindOfReply(args[1]) # "" /\ ~FieldsOk(args[1])) =>
              (~unwrap(ret).ok /\ unwrap(ret).err.e \in {"BooleanField", "TimeField"})
        /\ (~unwrap(ret).ok /\ unwrap(ret).err.e = "HeadTail") =>
              (SumOk(args[1]) /\ FieldsOk(args[1]) /\ ~Framed(args[1]))
\* a working period reply with a wrong head, a wrong tail and 31 minutes
C27_Witness ==
    /\ Parsed /\ SumOk(args[1])
    /\ At(args[1], 0) = 0 /\ At(args[1], 9) = 0
    /\ IsError(unwrap(ret), TimeField(31))

----------------------------------------------------------------------------
\* the steps that send a `set` frame and wait for its confirmation

ConfirmSteps ==
    {"init_wake", "init_set_runmode_query", "init_sleep", "measure_wake", "measure_sleep",
     "make_periodic_wake", "make_periodic_set_period", "make_periodic_set_runmode_active"}
\* the subcommand of the frame a step sends and the mode / value it asks for
StepSub(p) ==
    CASE p \in {"init_wake", "init_sleep", "measure_wake", "measure_sleep", "make_periodic_wake"} -> 6
      [] p \in {"init_set_runmode_query", "make_periodic_set_runmode_active"} -> 2
      [] p = "make_periodic_set_period" -> 8
StepWant(p) ==
    CASE p \in {"init_wake", "measure_wake", "make_periodic_wake", "init_set_runmode_query"} -> 1
      [] p \in {"init_sleep", "measure_sleep", "make_periodic_set_runmode_active"} -> 0
      [] p = "make_periodic_set_period" -> args[1]
\* the step did not fail: the call goes on, or has returned Ok
StepOk == pc' # "idle" \/ ReturnedOk'
Reads(evs) == Cardinality({i \in 1..Len(evs) : evs[i].op = "read"})

\* C24: wake, sleep, set_runmode_query, set_runmode_active and set_period each
\* write one `set` frame of their kind with the requested mode or value and
\* read at most one reply; the step succeeds only on a reply of that kind
\* reporting that mode or value, and does succeed on one; a reply of that kind
\* reporting another gives OperationFailed, a reply of another kind
\* UnexpectedType.
C24_Step ==
    Ended \in ConfirmSteps =>
        /\ Len(NewEvents) \in {1, 2}
        /\ IsQuery(NewEvents[1], StepSub(Ended), 1, StepWant(Ended))
        /\ Len(NewEvents) = 2 => NewEvents[2].op = "read"
        /\ StepOk <=> Confirms(NewEvents, StepSub(Ended), {StepWant(Ended)})
        /\ (Len(NewEvents) = 2 /\ Decodes(NewEvents[2])) =>
              /\ (IsReply(NewEvents[2], StepSub(Ended))
                    /\ At(NewEvents[2].got.buf, 4) # StepWant(Ended)) =>
                    ReturnedError("OperationFailed")'
              /\ ~IsReply(NewEvents[2], StepSub(Ended)) => ReturnedError("UnexpectedType")'
C24_SendThenConfirm == [][C24_Step]_vars
\* make_periodic(30) has failed on a period reply that reports 1 minute
C24_Witness ==
    /\ call = "make_periodic" /\ args = <<30>> /\ ReturnedError("OperationFailed")
    /\ Len(io) = 5 /\ IsReplyWith(io[5], 8, 1)

\* C25: a write the transport fails gives WriteError with the transport's
\* error, a write of fewer than 19 bytes ShortWrite, and neither is followed by
\* a read; a receive is one read into 10 bytes: a transport error gives
\* ReadError, fewer than 10 bytes ShortRead whatever the bytes are, a full
\* frame that does not decode ParseError with the decoder's error.
ExchangeSteps ==
    ConfirmSteps \cup {"init_get_firmware", "measure_dummy", "measure_real"}
C25_Write(evs) ==
    /\ Len(evs[1].buf) = 19
    /\ ~evs[1].did.ok =>
          /\ Len(evs) = 1
          /\ ReturnedError("WriteError")' /\ unwrap(ret').err.inner = evs[1].did.e
    /\ (evs[1].did.ok /\ evs[1].did.n < 19) => (Len(evs) = 1 /\ ReturnedError("ShortWrite")')
    /\ WroteAll(evs[1]) => (Len(evs) = 2 /\ evs[2].op = "read")
C25_Read(ev) ==
    /\ ev.len = 10
    /\ ~ev.got.ok => (ReturnedError("ReadError")' /\ unwrap(ret').err.inner = ev.got.e)
    /\ (ev.got.ok /\ ev.got.n < 10) => ReturnedError("ShortRead")'
    /\ (IsFullRead(ev) /\ ~Decodes(ev)) =>
          /\ ReturnedError("ParseError")'
          /\ unwrap(ret').err.inner = parse_reply(ev.got.buf).err
    /\ ReturnedError("ParseError")' => (IsFullRead(ev) /\ ~Decodes(ev))
C25_Step ==
    /\ Ended \in ExchangeSteps =>
          /\ Len(NewEvents) \in {1, 2} /\ NewEvents[1].op = "write"
          /\ C25_Write(NewEvents)
          /\ Len(NewEvents) = 2 => C25_Read(NewEvents[2])
    /\ (pc = "idle" /\ state = "Periodic" /\ call' = "Periodic::measure") =>
          (Len(io') = 1 /\ io'[1].op = "read" /\ C25_Read(io'[1]))
C25_ErrorMapping == [][C25_Step]_vars
\* a Polling measure has failed on a read that delivered 9 bytes of a frame
C25_Witness ==
    /\ call = "Polling::measure" /\ ReturnedError("ShortRead")
    /\ io[Len(io)].op = "read" /\ io[Len(io)].got.n = 9
    /\ At(io[Len(io)].got.buf, 1) = 192

\* C26: in init, Polling measure and make_periodic a frame is written only
\* after the settle delay, the spin-up delay or a full reply that decoded; a
\* read follows the complete write of a frame; the first event is the settle
\* delay, and the only other delay is the one of Polling measure between its
\* first measurement exchange and its second measurement query.
C26_Alternation ==
    call \in {"init", "Polling::measure", "make_periodic"} =>
        \A i \in 1..Len(io) :
            /\ i = 1 => io[i].op = "delay"
            /\ (io[i].op = "write" /\ i > 1) =>
                  (io[i - 1].op = "delay" \/ Decodes(io[i - 1]))
            /\ io[i].op = "read" => (i > 1 /\ WroteAll(io[i - 1]))
            /\ (io[i].op = "delay" /\ i > 1) =>
                  /\ call = "Polling::measure" /\ i = 6
                  /\ IsMeasurementQuery(io[4]) /\ IsMeasurement(io[5])
                  /\ IsDelay(io[i], config.measure_delay)
                  /\ i < Len(io) => IsMeasurementQuery(io[i + 1])
\* a Polling measure is about to put the sensor back to sleep
C26_Witness ==
    /\ call = "Polling::measure" /\ pc = "measure_sleep"
    /\ Len(io) = 8 /\ io[6].op = "delay" /\ io[7].op = "write" /\ io[8].op = "read"

\* C28: no Polling or Periodic driver reports the broadcast id 0xFFFF as the
\* id of its sensor.
C28_NeverBroadcastId == Initialized(state) => id # Some(IdAll)

\* C29: when the frame read in reply to a wake, set-reporting-mode,
\* set-period, firmware or sleep request is a measurement, the step fails with
\* UnexpectedType, and such a step reads at most once: it does not go on to
\* the next frame.
C29_Step ==
    Ended \in (ConfirmSteps \cup {"init_get_firmware"}) =>
        /\ Reads(NewEvents) <= 1
        /\ (\E i \in 1..Len(NewEvents) : Decodes(NewEvents[i]) /\ IsMeasurement(NewEvents[i])) =>
              ReturnedError("UnexpectedType")'
C29_UnsolicitedFrameFailsStep == [][C29_Step]_vars
\* init has failed on a measurement that came ahead of the reply to its wake
C29_Witness ==
    /\ call = "init" /\ ReturnedError("UnexpectedType")
    /\ Len(io) = 3 /\ IsMeasurement(io[3]) /\ Decodes(io[3])

\* C30: a reply of the right kind that reports the requested mode or value
\* confirms a wake, sleep, set-reporting-mode or set-period request also when
\* it carries the `query` flag (byte 3 = 0).
C30_Step ==
    (Ended \in ConfirmSteps
        /\ Confirms(NewEvents, StepSub(Ended), {StepWant(Ended)})
        /\ At(NewEvents[2].got.buf, 3) = 0) => StepOk
C30_FlagNotChecked == [][C30_Step]_vars
\* make_periodic(1) has returned Ok on three replies that carry the query flag
C30_Witness ==
    /\ call = "make_periodic" /\ ReturnedOk /\ args = <<1>>
    /\ At(io[3].got.buf, 3) = 0 /\ At(io[5].got.buf, 3) = 0 /\ At(io[7].got.buf, 3) = 0

----------------------------------------------------------------------------
\* the device id a frame read carries, and the target id of a frame written
ReplyId(ev) == 256 * At(ev.got.buf, 6) + At(ev.got.buf, 7)
TargetOf(ev) == 256 * At(ev.buf, 15) + At(ev.buf, 16)
\* the exchange read a reply that decodes and comes from another device than the learned one
FromAnother(evs) ==
    /\ Len(evs) >= 1
    /\ Decodes(evs[Len(evs)])
    /\ Some(ReplyId(evs[Len(evs)])) # sensor_id

\* C31: in the Polling and Periodic phases a reply from a device whose id is
\* not the learned one is taken like one from the learned device: a
\* confirmation of the requested mode or value lets the step succeed, a
\* measurement is the reading of the measuring step, and id() stays as it was.
C31_Step ==
    Initialized(state) =>
        /\ (Ended \in ConfirmSteps /\ FromAnother(NewEvents)
                /\ Confirms(NewEvents, StepSub(Ended), {StepWant(Ended)})) => StepOk
        /\ (Ended \in {"measure_dummy", "measure_real"} /\ FromAnother(NewEvents)
                /\ WroteAll(NewEvents[1]) /\ IsMeasurement(NewEvents[2])) =>
              /\ pc' # "idle"
              /\ Ended = "measure_real" =>
                    locals'.res = Some(ReadingOf(NewEvents[2].got.buf))
        /\ (pc = "idle" /\ call' = "Periodic::measure" /\ FromAnother(io')
                /\ IsMeasurement(io'[1])) =>
              (ReturnedOk' /\ unwrap(ret').val = ReadingOf(io'[1].got.buf))
        /\ Initialized(state') => id' = id
C31_ReplyIdNotCompared == [][C31_Step]_vars
\* a driver that learned 0x0102 has measured on replies that all come from 0xA160
C31_Witness ==
    /\ call = "Polling::measure" /\ ReturnedOk /\ id = Some(IdB)
    /\ \A i \in {3, 5, 8, 10} : ReplyId(io[i]) = IdA

\* C32: a frame is written to the sensor id stored when it is written, to
\* 0xFFFF when none is stored: the frames of init all go to 0xFFFF, its last
\* one included, and those of Polling measure and make_periodic to the id
\* learned in init.
C32_Step ==
    /\ \A i \in 1..Len(NewEvents) :
          (pc # "idle" /\ NewEvents[i].op = "write") =>
              TargetOf(NewEvents[i]) = (IF sensor_id = None THEN 65535 ELSE unwrap(sensor_id))
    /\ \A i \in 1..Len(io') :
          io'[i].op = "write" =>
              /\ call' = "init" => TargetOf(io'[i]) = 65535
              /\ call' \in {"Polling::measure", "make_periodic"} =>
                    Some(TargetOf(io'[i])) = id'
C32_TargetIsStoredId == [][C32_Step]_vars
\* init has learned 0x0102 and has written its sleep frame to 0xFFFF
C32_Witness ==
    /\ InitOk /\ id = Some(IdB)
    /\ IsSleep(io[8]) /\ TargetOf(io[8]) = 65535

\* C33: every frame written is one of: Sleep set to Work or Sleep,
\* ReportingMode set to Query or Active, the measurement query, the firmware
\* query, WorkingPeriod set to at most 30 minutes; its other payload bytes are
\* 0, so none is a SetDeviceID frame or carries the query flag of a mode, and
\* create_query has returned a frame for each.
C33_OnlyTheseFrames ==
    \A i \in 1..Len(io) :
        io[i].op = "write" =>
            /\ Len(io[i].buf) = 19
            /\ \/ IsWake(io[i]) \/ IsSleep(io[i])
               \/ IsSetQueryMode(io[i]) \/ IsSetActiveMode(io[i])
               \/ IsMeasurementQuery(io[i]) \/ IsFirmwareQuery(io[i])
               \/ \E minutes \in 0..30 : IsSetPeriod(io[i], minutes)
            /\ \A j \in 5..14 : At(io[i].buf, j) = 0
\* make_periodic(30) has written its working period frame
C33_Witness ==
    /\ call = "make_periodic" /\ args = <<30>>
    /\ Len(io) >= 4 /\ IsSetPeriod(io[4], 30)

----------------------------------------------------------------------------
\* C34: a Polling measure that fails leaves the driver as it was (Polling,
\* same configuration, id and version, nothing kept of the call); whatever the
\* last call returned, a measure starts with the settle delay followed by the
\* wake frame; and each of its four exchanges that is answered as asked lets
\* it go on, the last one returning Ok with the second reading: so a measure
\* after a failed one returns Ok when the device answers its four requests.
C34_Step ==
    /\ (call' = "Polling::measure" /\ ReturnedErr') =>
          /\ state' = "Polling" /\ locals' = NoLocals
          /\ config' = config /\ sensor_id' = sensor_id /\ firmware' = firmware
    /\ (pc = "idle" /\ call' = "Polling::measure") =>
          (io' = <<DelayEv(config.sleep_delay)>> /\ pc' = "measure_wake" /\ ret' = None)
    /\ (pc = "measure_wake" /\ Len(io') > Len(io)) =>
          /\ Len(io) = 1 /\ IsWake(io'[2])
          /\ WroteAll(io'[2]) => pc' = "measure_wake_reply"
    /\ (Ended = "measure_wake" /\ Confirms(NewEvents, 6, {1})) => pc' = "measure_dummy"
    /\ (pc \in {"measure_dummy", "measure_real", "measure_sleep"} /\ Len(io') > Len(io)
            /\ WroteAll(io'[Len(io')])) => pc' \in Waiting
    /\ (Ended = "measure_dummy" /\ Len(NewEvents) = 2 /\ WroteAll(NewEvents[1])
            /\ Decodes(NewEvents[2]) /\ IsMeasurement(NewEvents[2])) => pc' = "measure_spin"
    /\ (pc = "measure_spin" /\ Len(io') > Len(io)) => pc' = "measure_real"
    /\ (Ended = "measure_real" /\ Len(NewEvents) = 2 /\ WroteAll(NewEvents[1])
            /\ Decodes(NewEvents[2]) /\ IsMeasurement(NewEvents[2])) => pc' = "measure_sleep"
    /\ (Ended = "measure_sleep" /\ Confirms(NewEvents, 6, {0})) =>
          (ReturnedOk' /\ unwrap(ret').val = ReadingOf(io'[8].got.buf))
C34_MeasureRecovers == [][C34_Step]_vars
\* a measure on a driver whose earlier measure failed has returned Ok
C34_Witness ==
    /\ call = "Polling::measure" /\ ReturnedOk /\ state = "Polling"
    /\ Len(io) = 10 /\ unwrap(ret).val = ReadingOf(io[8].got.buf)

====
